---- MODULE Spec2Model ----
(***************************************************************************)
(* State-machine model of the dashboard's hooks:                           *)
(*   - the polling controllers useLiveDevices and useAutoRefresh: interval *)
(*     timer, overlapping requests, manual refresh, unmount guard;         *)
(*   - useAlerts: alert list, selection, single and bulk acknowledge.      *)
(*   - useFilters: the filter state container and its activeCount;        *)
(*   - useFacilitiesAndZones: the facility list and the zones derived from *)
(*     the selected facility;                                              *)
(*   - useDashboardData: the three parallel requests of a fetch round;     *)
(*   - exportHelpers: the no-data guard and the CSV text of exportToCSV;   *)
(*   - the health colour of DeviceCard and DeviceHeartbeat;                *)
(*   - the alert panel's filters (FilterPanel and AlertFilters);           *)
(*   - the legacy FilterPanel: its effects and onFilterChange calls.       *)
(* The browser is modelled by a logical clock, the set of interval timers  *)
(* that were created and not cleared, and the sets of HTTP requests in     *)
(* flight; the backend by the set of alerts it holds as acknowledged.      *)
(***************************************************************************)
EXTENDS Integers, Sequences, FiniteSets, TLC

\* ---------------------------------------------------------------------
\* Bounds of the model
\* ---------------------------------------------------------------------
MaxTime == 3
MaxFetches == 3
MaxTimers == 2
MaxRequests == 4
MaxRounds == 2
MaxLen == 1

\* the JS value null / undefined of a string- or object-valued state
Null == "null"

\* interval props (abstract time units; the default of the hooks is 10000 ms)
Intervals == {1, 2}
\* payloads the live-status endpoint may answer with
Payloads == {"p1", "p2"}
\* err.message of a rejected request ("" : no message on the error object)
ErrMessages == {"", "Network Error"}
\* callback props of useAutoRefresh (Null: none provided)
Callbacks == {Null, "cb1", "cb2"}

VARIABLES
    \* ---- useLiveDevices: React state, the liveness ref, requests in flight
    data, loading, error, lastUpdated, isMountedRef, inflight,
    \* ---- both polling hooks: the timer ref, the props, the lifecycle of the
    \* component, whether the interval effect holds a cleanup function
    intervalRef, enabled, interval, lifecycle, hasCleanup,
    \* ---- browser: clock, interval timers created and not cleared
    now, timers, timersCreated,
    \* ---- which polling hook the instance is; useAutoRefresh: its callback
    \* prop and the savedCallback ref
    hook, callback, savedCallback,
    \* ---- observation: counters of what happened, the successful response
    \* that arrived last, the newest request answered successfully so far,
    \* the last step taken
    nFetch, nSetup, nTick, nRefresh, lastOk, newestOk,
    \* ---- useAlerts: React state, whether the hook's component is mounted
    alerts, stats, alertsLoading, alertsError, filters, selectedAlerts,
    alertsMounted,
    \* ---- backend: the alerts it holds as acknowledged
    serverAcked,
    \* ---- getAlerts requests in flight, acknowledge calls in progress,
    \* counters of the requests issued
    getReqs, ackOps, nGetAlerts, nAckReq,
    \* ---- useFilters: the filter state, the initialFilters argument of the
    \* current render, the derived activeCount, the argument of the last
    \* onFilterChange call; observation: the initialFilters of the first render
    uFilters, initialFilters, activeCount, onFilterChangeArg, constructedWith,
    \* ---- useFacilitiesAndZones: React state, the selectedFacility argument,
    \* the lifecycle of its component, facility-list requests in flight,
    \* counters of the facility-list and zone requests issued
    facilities, zones, facLoading, facError, selectedFacility, facLifecycle,
    facReqs, nFacReq, nZoneReq,
    \* ---- useDashboardData: React state, the date and filters arguments,
    \* the lifecycle of its component, the fetch rounds in flight; observation:
    \* the number of rounds started, the rounds whose three requests succeeded
    dashData, dashLoading, dashError, dashDate, dashFilters, dashLifecycle,
    dashRounds, nDashRounds, dashSucceeded,
    \* ---- exportHelpers: the data handed to an export function, the alert
    \* dialog the last call raised ("" : none), the file written last
    exportInput, alertShown, download,
    \* ---- the device views: the health_score of the device on display, the
    \* class of DeviceCard's health bar, of DeviceHeartbeat's health bar and
    \* of DeviceHeartbeat's health text ("" : not rendered yet)
    health_score, cardBar, heartbeatBar, heartbeatText,
    \* ---- AlertFilters: the values its two selects show
    severitySelect, statusSelect,
    \* ---- the legacy FilterPanel: its React state (one member per useState)
    \* with the progress of its facility request; the filter objects the last
    \* step passed to onFilterChange, in order
    legacy, notified,
    \* ---- the last step taken (and what it returned to its caller)
    ev

\* what only useLiveDevices has, and what only useAutoRefresh has
liveOnly == <<data, loading, error, lastUpdated, isMountedRef, inflight,
              nRefresh, lastOk, newestOk>>
autoOnly == <<hook, callback, savedCallback>>

pollVars == <<data, loading, error, lastUpdated, isMountedRef, inflight,
              intervalRef, enabled, interval, lifecycle, hasCleanup,
              now, timers, timersCreated, hook, callback, savedCallback,
              nFetch, nSetup, nTick, nRefresh, lastOk, newestOk>>

alertVars == <<alerts, stats, alertsLoading, alertsError, filters,
               selectedAlerts, alertsMounted, serverAcked, getReqs, ackOps,
               nGetAlerts, nAckReq>>

filterVars == <<uFilters, initialFilters, activeCount, onFilterChangeArg,
                constructedWith>>

facVars == <<facilities, zones, facLoading, facError, selectedFacility,
             facLifecycle, facReqs, nFacReq, nZoneReq>>

\* the hooks behind the filter form
formVars == <<filterVars, facVars>>

dashVars == <<dashData, dashLoading, dashError, dashDate, dashFilters,
              dashLifecycle, dashRounds, nDashRounds, dashSucceeded>>

exportVars == <<exportInput, alertShown, download>>

healthVars == <<health_score, cardBar, heartbeatBar, heartbeatText>>

selectVars == <<severitySelect, statusSelect>>

legacyVars == <<legacy, notified>>

\* the hooks and helpers behind the dashboard's views
viewVars == <<dashVars, exportVars, healthVars, selectVars, legacyVars>>
\* all of them but one
notDash == <<exportVars, healthVars, selectVars, legacyVars>>
notExport == <<dashVars, healthVars, selectVars, legacyVars>>
notHealth == <<dashVars, exportVars, selectVars, legacyVars>>
notSelect == <<dashVars, exportVars, healthVars, legacyVars>>
notLegacy == <<dashVars, exportVars, healthVars, selectVars>>

\* the hooks behind the pages that poll, list alerts and filter
hookVars == <<pollVars, alertVars, formVars>>

vars == <<pollVars, alertVars, formVars, viewVars, ev>>

\* ---------------------------------------------------------------------
\* Browser timers
\* ---------------------------------------------------------------------

\* setInterval(cb, period) called at time t: the new timer
NewTimer(id, t, period) == [id |-> id, due |-> t + period, period |-> period]

\* clearInterval(id)
ClearInterval(ts, id) == {t \in ts : t.id # id}

\* The cleanup function both hooks return from the interval effect:
\*   if (intervalRef.current) { clearInterval(...); intervalRef.current = null }
TimersAfterCleanup_Leak(ts, ref) == ts
TimersAfterCleanup(ts, ref) == IF ref # 0 THEN ClearInterval(ts, ref) ELSE ts

RefAfterCleanup(ref) == 0

\* the fetch budget of a behaviour
CanFetch == nFetch < MaxFetches
CanSetUp == CanFetch /\ timersCreated < MaxTimers

\* Time passes; a due timer fires before the clock moves on.
Advance ==
    /\ now < MaxTime
    /\ \A t \in timers : t.due > now
    /\ now' = now + 1
    /\ ev' = [op |-> "advance"]
    /\ UNCHANGED <<viewVars, formVars, alertVars, liveOnly, autoOnly, intervalRef, enabled, interval,
                   lifecycle, hasCleanup, timers, timersCreated, nFetch,
                   nSetup, nTick>>

\* ---------------------------------------------------------------------
\* useLiveDevices
\* ---------------------------------------------------------------------

\* err.message || 'Failed to fetch live device data'
LiveErrorMessage(m) == IF m = "" THEN "Failed to fetch live device data" ELSE m

\* fetchData up to its await: setError(null), request issued
FetchDataIssue ==
    /\ error' = Null
    /\ inflight' = inflight \cup {nFetch + 1}
    /\ nFetch' = nFetch + 1

\* Body of the interval effect, run with the props (en, iv) after the
\* previous effect's cleanup left timers ts and ref r.
SetupEffect_IgnoresEnabled(en, iv, ts, r) ==
    /\ FetchDataIssue
    /\ timers' = ts \cup {NewTimer(timersCreated + 1, now, iv)}
    /\ intervalRef' = timersCreated + 1
    /\ timersCreated' = timersCreated + 1
    /\ nSetup' = nSetup + 1
    /\ hasCleanup' = TRUE

SetupEffect(en, iv, ts, r) ==
    IF ~en
    THEN /\ timers' = ts
         /\ intervalRef' = r
         /\ hasCleanup' = FALSE
         /\ UNCHANGED <<error, inflight, nFetch, nSetup, timersCreated>>
    ELSE /\ FetchDataIssue
         /\ timers' = ts \cup {NewTimer(timersCreated + 1, now, iv)}
         /\ intervalRef' = timersCreated + 1
         /\ timersCreated' = timersCreated + 1
         /\ nSetup' = nSetup + 1
         /\ hasCleanup' = TRUE

\* First render committed: both effects run.
Mount ==
    /\ hook = "useLiveDevices"
    /\ lifecycle = "created"
    /\ lifecycle' = "mounted"
    /\ SetupEffect(enabled, interval, timers, intervalRef)
    /\ ev' = [op |-> "mount"]
    /\ UNCHANGED <<viewVars, formVars, alertVars, autoOnly, data, loading, lastUpdated, isMountedRef, enabled,
                   interval, now, nTick, nRefresh, lastOk, newestOk>>

\* The parent re-renders with another value of enabled: the effect's
\* dependencies changed, so its cleanup (if it returned one) runs, then its body.
SetEnabled(b) ==
    /\ hook = "useLiveDevices"
    /\ lifecycle = "mounted"
    /\ b # enabled
    /\ b => CanSetUp
    /\ enabled' = b
    /\ LET ts == IF hasCleanup THEN TimersAfterCleanup(timers, intervalRef) ELSE timers
           r  == IF hasCleanup THEN RefAfterCleanup(intervalRef) ELSE intervalRef
       IN SetupEffect(b, interval, ts, r)
    /\ ev' = [op |-> "setEnabled"]
    /\ UNCHANGED <<viewVars, formVars, alertVars, autoOnly, data, loading, lastUpdated, isMountedRef, interval,
                   lifecycle, now, nTick, nRefresh, lastOk, newestOk>>

\* The parent re-renders with another interval.
SetIntervalProp(iv) ==
    /\ hook = "useLiveDevices"
    /\ lifecycle = "mounted"
    /\ iv # interval
    /\ enabled => CanSetUp
    /\ interval' = iv
    /\ LET ts == IF hasCleanup THEN TimersAfterCleanup(timers, intervalRef) ELSE timers
           r  == IF hasCleanup THEN RefAfterCleanup(intervalRef) ELSE intervalRef
       IN SetupEffect(enabled, iv, ts, r)
    /\ ev' = [op |-> "setInterval"]
    /\ UNCHANGED <<viewVars, formVars, alertVars, autoOnly, data, loading, lastUpdated, isMountedRef, enabled,
                   lifecycle, now, nTick, nRefresh, lastOk, newestOk>>

\* The browser fires the callback of an active timer that is due:
\*   () => { fetchData() }
Tick(t) ==
    /\ hook = "useLiveDevices"
    /\ t \in timers
    /\ t.due = now
    /\ CanFetch
    /\ FetchDataIssue
    /\ timers' = (timers \ {t}) \cup {[t EXCEPT !.due = t.due + t.period]}
    /\ nTick' = nTick + 1
    /\ ev' = [op |-> "tick"]
    /\ UNCHANGED <<viewVars, formVars, alertVars, autoOnly, data, loading, lastUpdated, intervalRef,
                   isMountedRef, enabled, interval, lifecycle, hasCleanup, now,
                   timersCreated, nSetup, nRefresh, lastOk, newestOk>>

\* A refresh that also restarts the interval timer.
Refresh_RestartsTimer ==
    /\ hook = "useLiveDevices"
    /\ lifecycle = "mounted"
    /\ CanFetch
    /\ loading' = TRUE
    /\ FetchDataIssue
    /\ timers' = IF intervalRef # 0
                 THEN ClearInterval(timers, intervalRef)
                          \cup {NewTimer(intervalRef, now, interval)}
                 ELSE timers
    /\ nRefresh' = nRefresh + 1
    /\ ev' = [op |-> "refresh"]
    /\ UNCHANGED <<viewVars, formVars, alertVars, autoOnly, data, lastUpdated, intervalRef, isMountedRef,
                   enabled, interval, lifecycle, hasCleanup, now, timersCreated,
                   nSetup, nTick, lastOk, newestOk>>

\* refresh(): setLoading(true); fetchData()
Refresh ==
    /\ hook = "useLiveDevices"
    /\ lifecycle = "mounted"
    /\ CanFetch
    /\ loading' = TRUE
    /\ FetchDataIssue
    /\ nRefresh' = nRefresh + 1
    /\ ev' = [op |-> "refresh"]
    /\ UNCHANGED <<viewVars, formVars, alertVars, autoOnly, data, lastUpdated, intervalRef, isMountedRef,
                   enabled, interval, lifecycle, hasCleanup, now, timers,
                   timersCreated, nSetup, nTick, lastOk, newestOk>>

\* if (isMountedRef.current), the guard of both branches of fetchData
CommitAllowed_NoGuard(mounted) == TRUE
CommitAllowed(mounted) == mounted

\* A success branch that drops the response of a request older than one
\* already answered (a sequence check the hook does not have).
FetchSuccess_Sequenced(r, p) ==
    /\ r \in inflight
    /\ inflight' = inflight \ {r}
    /\ LET commit == CommitAllowed(isMountedRef) /\ newestOk < r
       IN /\ IF commit
             THEN /\ data' = p
                  /\ lastUpdated' = <<now>>
                  /\ loading' = FALSE
             ELSE UNCHANGED <<data, lastUpdated, loading>>
          /\ ev' = [op |-> "success", req |-> r, payload |-> p, committed |-> commit]
    /\ lastOk' = [req |-> r, payload |-> p]
    /\ newestOk' = IF r > newestOk THEN r ELSE newestOk
    /\ UNCHANGED <<viewVars, formVars, alertVars, autoOnly, error, isMountedRef, intervalRef, enabled, interval,
                   lifecycle, hasCleanup, now, timers, timersCreated, nFetch,
                   nSetup, nTick, nRefresh>>

\* api.getLiveDevices() of request r resolves with payload p: the code after
\* the await in the try block.  error is not written here (setError(null)
\* ran before the await).
FetchSuccess(r, p) ==
    /\ r \in inflight
    /\ inflight' = inflight \ {r}
    /\ LET commit == CommitAllowed(isMountedRef)
       IN /\ IF commit
             THEN /\ data' = p
                  /\ lastUpdated' = <<now>>
                  /\ loading' = FALSE
             ELSE UNCHANGED <<data, lastUpdated, loading>>
          /\ ev' = [op |-> "success", req |-> r, payload |-> p, committed |-> commit]
    /\ lastOk' = [req |-> r, payload |-> p]
    /\ newestOk' = IF r > newestOk THEN r ELSE newestOk
    /\ UNCHANGED <<viewVars, formVars, alertVars, autoOnly, error, isMountedRef, intervalRef, enabled, interval,
                   lifecycle, hasCleanup, now, timers, timersCreated, nFetch,
                   nSetup, nTick, nRefresh>>

\* A catch branch that also clears the stored payload.
FetchFailure_ClearsData(r, m) ==
    /\ r \in inflight
    /\ inflight' = inflight \ {r}
    /\ LET commit == CommitAllowed(isMountedRef)
       IN /\ IF commit
             THEN /\ error' = LiveErrorMessage(m)
                  /\ loading' = FALSE
                  /\ data' = Null
             ELSE UNCHANGED <<data, error, loading>>
          /\ ev' = [op |-> "failure", req |-> r, committed |-> commit]
    /\ UNCHANGED <<viewVars, formVars, alertVars, autoOnly, lastUpdated, isMountedRef, intervalRef, enabled,
                   interval, lifecycle, hasCleanup, now, timers, timersCreated,
                   nFetch, nSetup, nTick, nRefresh, lastOk, newestOk>>

\* A catch branch that retries the request at once.
FetchFailure_Retry(r, m) ==
    /\ r \in inflight
    /\ CanFetch
    /\ inflight' = (inflight \ {r}) \cup {nFetch + 1}
    /\ nFetch' = nFetch + 1
    /\ LET commit == CommitAllowed(isMountedRef)
       IN /\ IF commit
             THEN /\ error' = LiveErrorMessage(m)
                  /\ loading' = FALSE
             ELSE UNCHANGED <<error, loading>>
          /\ ev' = [op |-> "failure", req |-> r, committed |-> commit]
    /\ UNCHANGED <<viewVars, formVars, alertVars, autoOnly, data, lastUpdated, isMountedRef, intervalRef,
                   enabled, interval, lifecycle, hasCleanup, now, timers,
                   timersCreated, nSetup, nTick, nRefresh, lastOk, newestOk>>

\* api.getLiveDevices() of request r rejects with an error whose message is
\* m: the catch block.
FetchFailure(r, m) ==
    /\ r \in inflight
    /\ inflight' = inflight \ {r}
    /\ LET commit == CommitAllowed(isMountedRef)
       IN /\ IF commit
             THEN /\ error' = LiveErrorMessage(m)
                  /\ loading' = FALSE
             ELSE UNCHANGED <<error, loading>>
          /\ ev' = [op |-> "failure", req |-> r, committed |-> commit]
    /\ UNCHANGED <<viewVars, formVars, alertVars, autoOnly, data, lastUpdated, isMountedRef, intervalRef,
                   enabled, interval, lifecycle, hasCleanup, now, timers,
                   timersCreated, nFetch, nSetup, nTick, nRefresh, lastOk,
                   newestOk>>

\* The component unmounts: the interval effect's cleanup runs (if it returned
\* one), then the cleanup that lowers the liveness flag.
Unmount ==
    /\ hook = "useLiveDevices"
    /\ lifecycle = "mounted"
    /\ lifecycle' = "unmounted"
    /\ timers' = IF hasCleanup THEN TimersAfterCleanup(timers, intervalRef) ELSE timers
    /\ intervalRef' = IF hasCleanup THEN RefAfterCleanup(intervalRef) ELSE intervalRef
    /\ hasCleanup' = FALSE
    /\ isMountedRef' = FALSE
    /\ ev' = [op |-> "unmount"]
    /\ UNCHANGED <<viewVars, formVars, alertVars, autoOnly, data, loading, error, lastUpdated, inflight, enabled,
                   interval, now, timersCreated, nFetch, nSetup, nTick, nRefresh,
                   lastOk, newestOk>>

\* ---------------------------------------------------------------------
\* useAutoRefresh
\* ---------------------------------------------------------------------

\* Body of the interval effect of useAutoRefresh, run with the props (en, iv)
\* and the saved callback cb.
AutoSetupEffect(en, iv, cb, ts, r) ==
    IF ~en \/ cb = Null
    THEN /\ timers' = ts
         /\ intervalRef' = r
         /\ hasCleanup' = FALSE
         /\ UNCHANGED <<nFetch, nSetup, timersCreated>>
    ELSE /\ nFetch' = nFetch + 1
         /\ timers' = ts \cup {NewTimer(timersCreated + 1, now, iv)}
         /\ intervalRef' = timersCreated + 1
         /\ timersCreated' = timersCreated + 1
         /\ nSetup' = nSetup + 1
         /\ hasCleanup' = TRUE

\* First render committed: the effect that saves the callback runs, then the
\* interval effect.
AutoMount ==
    /\ hook = "useAutoRefresh"
    /\ lifecycle = "created"
    /\ lifecycle' = "mounted"
    /\ savedCallback' = callback
    /\ AutoSetupEffect(enabled, interval, callback, timers, intervalRef)
    /\ ev' = [op |-> "mount"]
    /\ UNCHANGED <<viewVars, formVars, alertVars, liveOnly, hook, callback, enabled, interval, now, nTick>>

\* A render with another callback: only the effect that saves it runs.
AutoSetCallback(cb) ==
    /\ hook = "useAutoRefresh"
    /\ lifecycle = "mounted"
    /\ cb # callback
    /\ callback' = cb
    /\ savedCallback' = cb
    /\ ev' = [op |-> "setCallback"]
    /\ UNCHANGED <<viewVars, formVars, alertVars, liveOnly, hook, intervalRef, enabled, interval, lifecycle,
                   hasCleanup, now, timers, timersCreated, nFetch, nSetup, nTick>>

AutoSetEnabled(b) ==
    /\ hook = "useAutoRefresh"
    /\ lifecycle = "mounted"
    /\ b # enabled
    /\ b => CanSetUp
    /\ enabled' = b
    /\ LET ts == IF hasCleanup THEN TimersAfterCleanup(timers, intervalRef) ELSE timers
           r  == IF hasCleanup THEN RefAfterCleanup(intervalRef) ELSE intervalRef
       IN AutoSetupEffect(b, interval, savedCallback, ts, r)
    /\ ev' = [op |-> "setEnabled"]
    /\ UNCHANGED <<viewVars, formVars, alertVars, liveOnly, autoOnly, interval, lifecycle, now, nTick>>

AutoSetIntervalProp(iv) ==
    /\ hook = "useAutoRefresh"
    /\ lifecycle = "mounted"
    /\ iv # interval
    /\ enabled => CanSetUp
    /\ interval' = iv
    /\ LET ts == IF hasCleanup THEN TimersAfterCleanup(timers, intervalRef) ELSE timers
           r  == IF hasCleanup THEN RefAfterCleanup(intervalRef) ELSE intervalRef
       IN AutoSetupEffect(enabled, iv, savedCallback, ts, r)
    /\ ev' = [op |-> "setInterval"]
    /\ UNCHANGED <<viewVars, formVars, alertVars, liveOnly, autoOnly, enabled, lifecycle, now, nTick>>

\* The timer callback: if (savedCallback.current) savedCallback.current()
AutoTick(t) ==
    /\ hook = "useAutoRefresh"
    /\ t \in timers
    /\ t.due = now
    /\ CanFetch
    /\ nFetch' = IF savedCallback # Null THEN nFetch + 1 ELSE nFetch
    /\ timers' = (timers \ {t}) \cup {[t EXCEPT !.due = t.due + t.period]}
    /\ nTick' = nTick + 1
    /\ ev' = [op |-> "tick"]
    /\ UNCHANGED <<viewVars, formVars, alertVars, liveOnly, autoOnly, intervalRef, enabled, interval, lifecycle,
                   hasCleanup, now, timersCreated, nSetup>>

AutoUnmount ==
    /\ hook = "useAutoRefresh"
    /\ lifecycle = "mounted"
    /\ lifecycle' = "unmounted"
    /\ timers' = IF hasCleanup THEN TimersAfterCleanup(timers, intervalRef) ELSE timers
    /\ intervalRef' = IF hasCleanup THEN RefAfterCleanup(intervalRef) ELSE intervalRef
    /\ hasCleanup' = FALSE
    /\ ev' = [op |-> "unmount"]
    /\ UNCHANGED <<viewVars, formVars, alertVars, liveOnly, autoOnly, enabled, interval, now, timersCreated,
                   nFetch, nSetup, nTick>>

\* ---------------------------------------------------------------------
\* The polling hooks as a state machine
\* ---------------------------------------------------------------------

InitPoll ==
    /\ data = Null
    /\ loading = TRUE
    /\ error = Null
    /\ lastUpdated = <<>>
    /\ isMountedRef = TRUE
    /\ inflight = {}
    /\ intervalRef = 0
    /\ enabled \in BOOLEAN
    /\ interval \in Intervals
    /\ lifecycle = "created"
    /\ hasCleanup = FALSE
    /\ now = 0
    /\ timers = {}
    /\ timersCreated = 0
    /\ hook \in {"useLiveDevices", "useAutoRefresh"}
    /\ callback \in (IF hook = "useAutoRefresh" THEN Callbacks ELSE {Null})
    /\ savedCallback = Null
    /\ nFetch = 0
    /\ nSetup = 0
    /\ nTick = 0
    /\ nRefresh = 0
    /\ lastOk = [req |-> 0, payload |-> Null]
    /\ newestOk = 0

NextLive ==
    \/ Mount
    \/ \E b \in BOOLEAN : SetEnabled(b)
    \/ \E iv \in Intervals : SetIntervalProp(iv)
    \/ \E t \in timers : Tick(t)
    \/ Advance
    \/ Refresh
    \/ \E r \in inflight, p \in Payloads : FetchSuccess(r, p)
    \/ \E r \in inflight, m \in ErrMessages : FetchFailure(r, m)
    \/ Unmount
    \/ AutoMount
    \/ \E cb \in Callbacks : AutoSetCallback(cb)
    \/ \E b \in BOOLEAN : AutoSetEnabled(b)
    \/ \E iv \in Intervals : AutoSetIntervalProp(iv)
    \/ \E t \in timers : AutoTick(t)
    \/ AutoUnmount

\* ---------------------------------------------------------------------
\* Backend: the alert list endpoint
\* ---------------------------------------------------------------------

\* the alerts the backend holds
AlertIds == {1, 2}
\* the facility an alert belongs to
FacilityOf(id) == IF id % 2 = 1 THEN "A" ELSE "B"
\* values of the facility filter ("": all facilities)
FacilityFilters == {"", "A"}

\* the ids of a set, in ascending order
RECURSIVE IdSeq(_)
IdSeq(S) ==
    IF S = {} THEN <<>>
    ELSE LET m == CHOOSE x \in S : \A y \in S : x <= y
         IN <<m>> \o IdSeq(S \ {m})
\* the set of elements of a sequence
Range(q) == {q[k] : k \in 1..Len(q)}

\* the query parameter k of a request with filters f ("" : not sent)
Param(f, k) == IF k \in DOMAIN f THEN f[k] ELSE ""

\* the alerts matching the filters of a request
Matching(f) ==
    {i \in AlertIds :
        Param(f, "facility") = "" \/ FacilityOf(i) = Param(f, "facility")}

\* GET /alerts/ answered when the backend holds acked as acknowledged
ServerResponse(f, acked) ==
    LET ids == IdSeq(Matching(f))
    IN [alerts |-> [k \in 1..Len(ids) |->
                       [id |-> ids[k], acknowledged |-> ids[k] \in acked]],
        total |-> Len(ids),
        acknowledged |-> Cardinality(Matching(f) \cap acked),
        unacknowledged |-> Cardinality(Matching(f) \ acked)]

\* ---------------------------------------------------------------------
\* useAlerts
\* ---------------------------------------------------------------------

\* err.message || <default of the catch block>
MessageOr(m, default) == IF m = "" THEN default ELSE m

\* alerts.filter(alert => !alert.acknowledged).map(alert => alert.id)
UnacknowledgedIds(as) ==
    LET un == SelectSeq(as, LAMBDA a : ~a.acknowledged)
    IN [k \in 1..Len(un) |-> un[k].id]

\* the row of alert id is rendered with its checkbox and Acknowledge button:
\* the table is not showing the spinner and the row is unacknowledged
RowActionsOffered(id) ==
    /\ alertsMounted
    /\ ~alertsLoading
    /\ \E k \in 1..Len(alerts) : alerts[k].id = id /\ ~alerts[k].acknowledged

\* fetchAlerts up to its await, called with the filters f its closure holds,
\* on behalf of the acknowledge call owner (0: the effect)
FetchAlertsIssue(f, owner) ==
    /\ alertsLoading' = TRUE
    /\ alertsError' = Null
    /\ getReqs' = getReqs \cup {[req |-> nGetAlerts + 1, filters |-> f,
                                 snap |-> <<>>, owner |-> owner]}
    /\ nGetAlerts' = nGetAlerts + 1

\* the request budget of a behaviour (list requests and acknowledge requests)
CanRequest == nGetAlerts + nAckReq < MaxRequests

\* The hook's component mounts: the effect calls fetchAlerts.
AlertsMount ==
    /\ ~alertsMounted
    /\ alertsMounted' = TRUE
    /\ FetchAlertsIssue(filters, 0)
    /\ ev' = [op |-> "mount"]
    /\ UNCHANGED <<viewVars, formVars, pollVars, alerts, stats, filters, selectedAlerts, serverAcked,
                   ackOps, nAckReq>>

\* The argument of updateFilters is a JS value: an object, or a function
\* prev => ({ ...prev, [key]: value }).
Obj(o) == [kind |-> "object", obj |-> o, key |-> "", value |-> ""]
Fn(key, value) == [kind |-> "function", obj |-> [k \in {} |-> ""],
                   key |-> key, value |-> value]

\* the own enumerable properties { ...x } copies: those of an object; a
\* function has none
OwnProperties(x) == IF x.kind = "object" THEN x.obj ELSE [k \in {} |-> ""]

\* { ...x, is_active: 'true' }
WithActive(x) ==
    [k \in DOMAIN OwnProperties(x) \cup {"is_active"} |->
        IF k = "is_active" THEN "true" ELSE OwnProperties(x)[k]]

\* updateFilters(x): setFilters({...x, is_active: 'true'}); fetchAlerts is
\* re-created, and the effect re-run, when a filter value changed.
UpdateFiltersCall(x) ==
    /\ alertsMounted
    /\ CanRequest
    /\ filters' = WithActive(x)
    /\ IF filters' # filters
       THEN FetchAlertsIssue(filters', 0)
       ELSE UNCHANGED <<alertsLoading, alertsError, getReqs, nGetAlerts>>
    /\ UNCHANGED <<formVars, pollVars, alerts, stats, selectedAlerts, alertsMounted,
                   serverAcked, ackOps, nAckReq>>

\* handleFilterChange(newFilters), FilterPanel's onFilterChange:
\*   updateFilters(newFilters)
UpdateFilters(nf) ==
    /\ UpdateFiltersCall(Obj(nf))
    /\ ev' = [op |-> "updateFilters"]
    /\ UNCHANGED viewVars

\* handleSeverityChange(severity), AlertFilters' onSeverityChange with the
\* value of its select (e.target.value || undefined):
\*   updateFilters(prev => ({ ...prev, severity }))
HandleSeverityChange(severity) ==
    /\ severity # severitySelect
    /\ severitySelect' = severity
    /\ UpdateFiltersCall(Fn("severity", severity))
    /\ ev' = [op |-> "selectChange", field |-> "severity", value |-> severity]
    /\ UNCHANGED <<notSelect, statusSelect>>

\* handleStatusChange(acknowledged), AlertFilters' onStatusChange:
\*   updateFilters(prev => ({ ...prev, acknowledged }))
HandleStatusChange(acknowledged) ==
    /\ acknowledged # statusSelect
    /\ statusSelect' = acknowledged
    /\ UpdateFiltersCall(Fn("acknowledged", acknowledged))
    /\ ev' = [op |-> "selectChange", field |-> "acknowledged",
              value |-> acknowledged]
    /\ UNCHANGED <<notSelect, severitySelect>>

\* toggleAlertSelection(alertId), from the checkbox of a row
ToggleAlertSelection(id) ==
    /\ RowActionsOffered(id)
    /\ selectedAlerts' = IF id \in Range(selectedAlerts)
                         THEN SelectSeq(selectedAlerts, LAMBDA x : x # id)
                         ELSE Append(selectedAlerts, id)
    /\ ev' = [op |-> "toggle"]
    /\ UNCHANGED <<viewVars, formVars, pollVars, alerts, stats, alertsLoading, alertsError, filters,
                   alertsMounted, serverAcked, getReqs, ackOps, nGetAlerts,
                   nAckReq>>

\* unacknowledgedCount = alerts.filter(a => !a.acknowledged).length
UnacknowledgedCount == Len(SelectSeq(alerts, LAMBDA a : ~a.acknowledged))

\* isAllSelected =
\*   selectedAlerts.length === unacknowledgedCount && unacknowledgedCount > 0
IsAllSelected ==
    Len(selectedAlerts) = UnacknowledgedCount /\ UnacknowledgedCount > 0

\* A select-all that takes every listed alert.
SelectAllAlerts_All(checked) ==
    /\ alertsMounted
    /\ ~alertsLoading
    /\ Len(alerts) > 0
    /\ selectedAlerts' = IF checked THEN [k \in 1..Len(alerts) |-> alerts[k].id]
                                    ELSE <<>>
    /\ ev' = [op |-> "selectAll", checked |-> checked]
    /\ UNCHANGED <<viewVars, formVars, pollVars, alerts, stats, alertsLoading, alertsError, filters,
                   alertsMounted, serverAcked, getReqs, ackOps, nGetAlerts,
                   nAckReq>>

\* selectAllAlerts(checked), from the checkbox of the table header
SelectAllAlerts(checked) ==
    /\ alertsMounted
    /\ ~alertsLoading
    /\ Len(alerts) > 0
    /\ selectedAlerts' = IF checked THEN UnacknowledgedIds(alerts) ELSE <<>>
    /\ ev' = [op |-> "selectAll", checked |-> checked]
    /\ UNCHANGED <<viewVars, formVars, pollVars, alerts, stats, alertsLoading, alertsError, filters,
                   alertsMounted, serverAcked, getReqs, ackOps, nGetAlerts,
                   nAckReq>>

\* acknowledgeAlert(alertId) up to its first await: the PATCH is sent.  The
\* call keeps the fetchAlerts (and so the filters) of the render it was
\* created in.
AcknowledgeAlert(id) ==
    /\ RowActionsOffered(id)
    /\ CanRequest
    /\ ackOps' = ackOps \cup {[op |-> nAckReq + 1, kind |-> "single",
                               ids |-> <<id>>, filters |-> filters,
                               phase |-> "ack", fetches |-> 0]}
    /\ nAckReq' = nAckReq + 1
    /\ ev' = [op |-> "call", kind |-> "single", ids |-> <<id>>]
    /\ UNCHANGED <<viewVars, formVars, pollVars, alerts, stats, alertsLoading, alertsError, filters,
                   selectedAlerts, alertsMounted, serverAcked, getReqs,
                   nGetAlerts>>

\* bulkAcknowledgeAlerts() up to its first await: an empty selection returns
\* an error at once, otherwise one POST carries the whole selection.
BulkAcknowledgeAlerts ==
    /\ alertsMounted
    /\ IF Len(selectedAlerts) = 0
       THEN /\ ev' = [op |-> "return", kind |-> "bulk", ids |-> <<>>,
                      success |-> FALSE, error |-> "No alerts selected",
                      fetches |-> 0]
            /\ UNCHANGED <<ackOps, nAckReq>>
       ELSE /\ CanRequest
            /\ ackOps' = ackOps \cup {[op |-> nAckReq + 1, kind |-> "bulk",
                                       ids |-> selectedAlerts,
                                       filters |-> filters,
                                       phase |-> "ack", fetches |-> 0]}
            /\ nAckReq' = nAckReq + 1
            /\ ev' = [op |-> "call", kind |-> "bulk", ids |-> selectedAlerts]
    /\ UNCHANGED <<viewVars, formVars, pollVars, alerts, stats, alertsLoading, alertsError, filters,
                   selectedAlerts, alertsMounted, serverAcked, getReqs,
                   nGetAlerts>>

\* A call that also marks its alerts as acknowledged in the list it holds.
AckSuccess_LocalPatch(o) ==
    /\ o \in ackOps
    /\ o.phase = "ack"
    /\ CanRequest
    /\ serverAcked' = serverAcked \cup Range(o.ids)
    /\ FetchAlertsIssue(o.filters, o.op)
    /\ alerts' = [k \in 1..Len(alerts) |->
                     IF alerts[k].id \in Range(o.ids)
                     THEN [alerts[k] EXCEPT !.acknowledged = TRUE]
                     ELSE alerts[k]]
    /\ ackOps' = (ackOps \ {o})
                    \cup {[o EXCEPT !.phase = "refetch", !.fetches = @ + 1]}
    /\ ev' = [op |-> "ackSuccess", kind |-> o.kind, ids |-> o.ids]
    /\ UNCHANGED <<viewVars, formVars, pollVars, stats, filters, selectedAlerts,
                   alertsMounted, nAckReq>>

\* The acknowledge request of call o succeeds: the backend has acknowledged
\* its ids, and the call goes on to  await fetchAlerts().
AckSuccess(o) ==
    /\ o \in ackOps
    /\ o.phase = "ack"
    /\ CanRequest
    /\ serverAcked' = serverAcked \cup Range(o.ids)
    /\ FetchAlertsIssue(o.filters, o.op)
    /\ ackOps' = (ackOps \ {o})
                    \cup {[o EXCEPT !.phase = "refetch", !.fetches = @ + 1]}
    /\ ev' = [op |-> "ackSuccess", kind |-> o.kind, ids |-> o.ids]
    /\ UNCHANGED <<viewVars, formVars, pollVars, alerts, stats, filters, selectedAlerts,
                   alertsMounted, nAckReq>>

\* the default messages of the two catch blocks
AckDefaultMessage(kind) ==
    IF kind = "single" THEN "Failed to acknowledge alert"
                       ELSE "Failed to acknowledge alerts"

\* A catch block that also drops the selection.
AckFailure_ClearsSelection(o, m) ==
    /\ o \in ackOps
    /\ o.phase = "ack"
    /\ ackOps' = ackOps \ {o}
    /\ selectedAlerts' = <<>>
    /\ ev' = [op |-> "return", kind |-> o.kind, ids |-> o.ids,
              success |-> FALSE,
              error |-> MessageOr(m, AckDefaultMessage(o.kind)),
              fetches |-> o.fetches]
    /\ UNCHANGED <<viewVars, formVars, pollVars, alerts, stats, alertsLoading, alertsError, filters,
                   alertsMounted, serverAcked, getReqs, nGetAlerts,
                   nAckReq>>

\* The acknowledge request of call o fails with an error whose message is m:
\* the catch block returns { success: false, error }.
AckFailure(o, m) ==
    /\ o \in ackOps
    /\ o.phase = "ack"
    /\ ackOps' = ackOps \ {o}
    /\ ev' = [op |-> "return", kind |-> o.kind, ids |-> o.ids,
              success |-> FALSE,
              error |-> MessageOr(m, AckDefaultMessage(o.kind)),
              fetches |-> o.fetches]
    /\ UNCHANGED <<viewVars, formVars, pollVars, alerts, stats, alertsLoading, alertsError, filters,
                   selectedAlerts, alertsMounted, serverAcked, getReqs,
                   nGetAlerts, nAckReq>>

\* The backend computes the answer of a getAlerts request.
ServerAnswers(r) ==
    /\ r \in getReqs
    /\ r.snap = <<>>
    /\ getReqs' = (getReqs \ {r})
            \cup {[r EXCEPT !.snap = <<ServerResponse(r.filters, serverAcked)>>]}
    /\ ev' = [op |-> "serverAnswers"]
    /\ UNCHANGED <<viewVars, formVars, pollVars, alerts, stats, alertsLoading, alertsError, filters,
                   selectedAlerts, alertsMounted, serverAcked, ackOps,
                   nGetAlerts, nAckReq>>

\* The acknowledge call that awaits request r, if any, resumes after
\* fetchAlerts resolved (it always resolves) and returns { success: true }.
OwnerReturns(r, refetched) ==
    IF r.owner = 0
    THEN /\ ackOps' = ackOps
         /\ ev' = [op |-> IF refetched THEN "fetched" ELSE "fetchFailed"]
    ELSE LET o == CHOOSE q \in ackOps : q.op = r.owner
         IN /\ ackOps' = ackOps \ {o}
            /\ ev' = [op |-> "return", kind |-> o.kind, ids |-> o.ids,
                      success |-> TRUE, error |-> Null, fetches |-> o.fetches,
                      refetched |-> refetched]

\* api.getAlerts of request r resolves: the rest of the try block of
\* fetchAlerts, then its finally.
FetchAlertsSuccess(r) ==
    /\ r \in getReqs
    /\ r.snap # <<>>
    /\ getReqs' = getReqs \ {r}
    /\ alerts' = r.snap[1].alerts
    /\ stats' = [total |-> r.snap[1].total,
                 acknowledged |-> r.snap[1].acknowledged,
                 unacknowledged |-> r.snap[1].unacknowledged]
    /\ selectedAlerts' = <<>>
    /\ alertsLoading' = FALSE
    /\ OwnerReturns(r, TRUE)
    /\ UNCHANGED <<viewVars, formVars, pollVars, alertsError, filters, alertsMounted, serverAcked,
                   nGetAlerts, nAckReq>>

\* api.getAlerts of request r rejects with an error whose message is m: the
\* catch block of fetchAlerts, then its finally.
FetchAlertsFailure(r, m) ==
    /\ r \in getReqs
    /\ getReqs' = getReqs \ {r}
    /\ alertsError' = MessageOr(m, "Failed to fetch alerts")
    /\ alertsLoading' = FALSE
    /\ OwnerReturns(r, FALSE)
    /\ UNCHANGED <<viewVars, formVars, pollVars, alerts, stats, filters, selectedAlerts,
                   alertsMounted, serverAcked, nGetAlerts, nAckReq>>

\* ---------------------------------------------------------------------
\* useFilters
\* ---------------------------------------------------------------------

\* JS values a filter field may hold, with the type typeof / Array.isArray
\* reports for them
Str(s) == [type |-> "string", s |-> s, n |-> 0, l |-> <<>>]
Num(n) == [type |-> "number", s |-> "", n |-> n, l |-> <<>>]
Lst(l) == [type |-> "array", s |-> "", n |-> 0, l |-> l]

FilterValues == {Str(""), Str("1"), Str("name"), Num(0), Num(7),
                 Lst(<<>>), Lst(<<"x">>)}
\* the keys callers pass to updateFilter
FilterKeys == {"facility", "zone", "sort_by"}

\* the initialFilters objects of the callers: the analytics page seeds
\* facility and zone, the filter panel also a non-empty sort_by
InitialObjects ==
    {[k \in {"facility", "zone"} |-> Str("")],
     [k \in FilterKeys |-> IF k = "sort_by" THEN Str("name") ELSE Str("")]}

\* arguments of a direct setFilters(obj) call
SetFiltersArgs ==
    InitialObjects \cup
        {[k \in FilterKeys |-> IF k = "sort_by" THEN Num(0) ELSE Str("1")]}

\* the callback of Object.values(filters).filter(...): one branch per type
\* (no value of FilterValues reaches the final Boolean(value))
IsCounted_CountsZero(v) ==
    CASE v.type = "string" -> v.s # ""
      [] v.type = "number" -> TRUE
      [] v.type = "array"  -> Len(v.l) > 0
IsCounted(v) ==
    CASE v.type = "string" -> v.s # ""
      [] v.type = "number" -> v.n # 0
      [] v.type = "array"  -> Len(v.l) > 0

\* activeCount = Object.values(filters).filter(...).length
ActiveCount(f) == Cardinality({k \in DOMAIN f : IsCounted(f[k])})

\* A state update of the hook is committed: the component renders with the
\* new filters (activeCount is derived in the render), then the effect calls
\* onFilterChange(filters).
CommitFilters(f) ==
    /\ uFilters' = f
    /\ activeCount' = ActiveCount(f)
    /\ onFilterChangeArg' = f

\* the updater of updateFilter:  { ...prev, [key]: value }, then
\* newFilters.zone = '' when key === 'facility'
NewFilters_KeepsZone(prev, key, value) ==
    [k \in DOMAIN prev \cup {key} |-> IF k = key THEN value ELSE prev[k]]
NewFilters(prev, key, value) ==
    LET spread == [k \in DOMAIN prev \cup {key} |->
                      IF k = key THEN value ELSE prev[k]]
    IN IF key = "facility"
       THEN [k \in DOMAIN spread \cup {"zone"} |->
                IF k = "zone" THEN Str("") ELSE spread[k]]
       ELSE spread

\* updateFilter(key, value)
UpdateFilter(key, value) ==
    /\ CommitFilters(NewFilters(uFilters, key, value))
    /\ ev' = [op |-> "updateFilter", key |-> key, value |-> value,
              zoneWasSet |-> "zone" \in DOMAIN uFilters
                                /\ uFilters["zone"] # Str("")]
    /\ UNCHANGED <<viewVars, pollVars, alertVars, facVars, initialFilters,
                   constructedWith>>

\* resetFilters(): setFilters(initialFilters), with the initialFilters of the
\* render the callback was created in (useCallback(..., [initialFilters]))
ResetFilters ==
    /\ CommitFilters(initialFilters)
    /\ ev' = [op |-> "resetFilters"]
    /\ UNCHANGED <<viewVars, pollVars, alertVars, facVars, initialFilters,
                   constructedWith>>

\* setFilters(obj), the raw setter the hook returns
SetFilters(obj) ==
    /\ CommitFilters(obj)
    /\ ev' = [op |-> "setFilters"]
    /\ UNCHANGED <<viewVars, pollVars, alertVars, facVars, initialFilters,
                   constructedWith>>

\* The caller renders again and passes another initialFilters object:
\* useState ignores it, resetFilters is re-created with it.
RenderWithInitial(obj) ==
    /\ obj # initialFilters
    /\ initialFilters' = obj
    /\ ev' = [op |-> "render"]
    /\ UNCHANGED <<viewVars, pollVars, alertVars, facVars, uFilters, activeCount,
                   onFilterChangeArg, constructedWith>>

\* ---------------------------------------------------------------------
\* Backend: the facility list endpoint
\* ---------------------------------------------------------------------

FacilityIds == {1, 2}
\* the zones of a facility
ZonesOf(id) == <<10 * id + 1>>
\* the shapes of a facility record: without a zones member, with an empty
\* one, with its zones
FacilityRecords(id) ==
    {[id |-> id, nested |-> FALSE, zones |-> <<>>],
     [id |-> id, nested |-> TRUE, zones |-> <<>>],
     [id |-> id, nested |-> TRUE, zones |-> ZonesOf(id)]}
\* the answers of GET /facilities/
FacilityLists == {<<a, b>> : a \in FacilityRecords(1), b \in FacilityRecords(2)}

\* ---------------------------------------------------------------------
\* useFacilitiesAndZones
\* ---------------------------------------------------------------------

\* the members of the api object
ApiMethods == {"getDashboardSummary", "getZonesPerformance",
               "getDevicesHeartbeat", "getLiveDevices", "getFacilities",
               "getAlerts", "acknowledgeAlert", "bulkAcknowledgeAlerts"}

\* values of the selectedFacility argument ('' : none; "7": an id that is
\* not in the list)
Selections == {"", "1", "2", "7"}
\* parseInt(selectedFacility)
ParseInt(sel) == CASE sel = "1" -> 1 [] sel = "2" -> 2 [] sel = "7" -> 7

\* facilities.find(f => f.id === parseInt(selectedFacility)): the indexes of
\* the records that match
FindFacility(facs, sel) == {k \in 1..Len(facs) : facs[k].id = ParseInt(sel)}

\* what the zones effect does when run with (sel, facs):
\*   "cleared"   no facility selected: setZones([])
\*   "nested"    the record found has a zones member: setZones(facility.zones)
\*   "requested" fetchZones sent api.getZonesByFacility(sel)
\*   "threw"     fetchZones called a member the api object does not have: the
\*               TypeError is caught in fetchZones, whose catch block runs
\*               setZones([])
ZonesBranch_KeepsZones(sel, facs) ==
    IF sel = "" THEN "kept"
    ELSE LET found == FindFacility(facs, sel)
         IN IF found # {} /\ facs[CHOOSE k \in found : \A j \in found : k <= j].nested
            THEN "nested"
            ELSE IF "getZonesByFacility" \in ApiMethods THEN "requested"
                                                        ELSE "threw"
ZonesBranch(sel, facs) ==
    IF sel = "" THEN "cleared"
    ELSE LET found == FindFacility(facs, sel)
         IN IF found # {} /\ facs[CHOOSE k \in found : \A j \in found : k <= j].nested
            THEN "nested"
            ELSE IF "getZonesByFacility" \in ApiMethods THEN "requested"
                                                        ELSE "threw"

\* The zones effect, run after a render with (sel, facs).
ZonesEffect(sel, facs) ==
    LET branch == ZonesBranch(sel, facs)
        found  == FindFacility(facs, sel)
    IN /\ zones' = CASE branch = "cleared" -> <<>>
                     [] branch = "nested" ->
                          facs[CHOOSE k \in found : \A j \in found : k <= j].zones
                     [] branch = "threw" -> <<>>
                     [] OTHER -> zones
       /\ nZoneReq' = IF branch = "requested" THEN nZoneReq + 1 ELSE nZoneReq

\* First render committed: the facilities effect calls fetchFacilities (up to
\* its await), then the zones effect runs.
FacMount ==
    /\ facLifecycle = "created"
    /\ facLifecycle' = "mounted"
    /\ facLoading' = TRUE
    /\ facError' = Null
    /\ facReqs' = facReqs \cup {nFacReq + 1}
    /\ nFacReq' = nFacReq + 1
    /\ ZonesEffect(selectedFacility, facilities)
    /\ ev' = [op |-> "facMount",
              zonesBranch |-> ZonesBranch(selectedFacility, facilities),
              hadZones |-> zones # <<>>]
    /\ UNCHANGED <<viewVars, pollVars, alertVars, filterVars, facilities,
                   selectedFacility>>

\* The caller renders with another selectedFacility: the zones effect runs.
SelectFacility(sel) ==
    /\ facLifecycle = "mounted"
    /\ sel # selectedFacility
    /\ selectedFacility' = sel
    /\ ZonesEffect(sel, facilities)
    /\ ev' = [op |-> "selectFacility",
              zonesBranch |-> ZonesBranch(sel, facilities),
              hadZones |-> zones # <<>>]
    /\ UNCHANGED <<viewVars, pollVars, alertVars, filterVars, facilities, facLoading,
                   facError, facLifecycle, facReqs, nFacReq>>

\* api.getFacilities() of request r resolves with list: setFacilities(data),
\* the finally block, and the zones effect runs again (facilities changed).
FacilitiesSuccess(r, list) ==
    /\ r \in facReqs
    /\ facReqs' = facReqs \ {r}
    /\ facilities' = list
    /\ facLoading' = FALSE
    /\ ZonesEffect(selectedFacility, list)
    /\ ev' = [op |-> "facilitiesLoaded",
              zonesBranch |-> ZonesBranch(selectedFacility, list),
              hadZones |-> zones # <<>>]
    /\ UNCHANGED <<viewVars, pollVars, alertVars, filterVars, facError,
                   selectedFacility, facLifecycle, nFacReq>>

\* A catch block that asks for the list again.
FacilitiesFailure_Retry(r, m) ==
    /\ r \in facReqs
    /\ nFacReq < MaxRequests
    /\ facReqs' = (facReqs \ {r}) \cup {nFacReq + 1}
    /\ nFacReq' = nFacReq + 1
    /\ facError' = MessageOr(m, "Failed to load facilities")
    /\ facLoading' = FALSE
    /\ ev' = [op |-> "facilitiesFailed"]
    /\ UNCHANGED <<viewVars, pollVars, alertVars, filterVars, facilities, zones,
                   selectedFacility, facLifecycle, nZoneReq>>

\* api.getFacilities() of request r rejects with an error whose message is m:
\* the catch block, then the finally block.
FacilitiesFailure(r, m) ==
    /\ r \in facReqs
    /\ facReqs' = facReqs \ {r}
    /\ facError' = MessageOr(m, "Failed to load facilities")
    /\ facLoading' = FALSE
    /\ ev' = [op |-> "facilitiesFailed"]
    /\ UNCHANGED <<viewVars, pollVars, alertVars, filterVars, facilities, zones,
                   selectedFacility, facLifecycle, nFacReq, nZoneReq>>

\* ---------------------------------------------------------------------
\* useDashboardData
\* ---------------------------------------------------------------------

\* the three requests of a fetch round:
\*   getDashboardSummary(date), getZonesPerformance(filters),
\*   getDevicesHeartbeat(filters)
DashParts == {"summary", "zones", "devices"}
\* the date argument ("" : none) and the filters argument, by its JSON text
DashDates == {"", "d1", "d2"}
DashFilters == {"{}", "{facility}"}

\* A part of the data is the number of the round whose response it is;
\* 0 is null.
NoDashData == [p \in DashParts |-> 0]

\* What data is once the request `part` of round id has resolved; done: the
\* other two have resolved as well and none of the three was rejected, so
\* Promise.all resolves and setData({ summary, zones, devices }) runs.
SetData_Merge(d, id, part, done) == [d EXCEPT ![part] = id]
SetData(d, id, part, done) == IF done THEN [p \in DashParts |-> id] ELSE d

\* Body of the effect, run with the date argument d:  if (date) fetchData()
\* fetchData up to its await: setLoading(true), setError(null), the three
\* requests issued
DashEffect(d) ==
    IF d = ""
    THEN UNCHANGED <<dashLoading, dashError, dashRounds, nDashRounds>>
    ELSE /\ dashLoading' = TRUE
         /\ dashError' = Null
         /\ dashRounds' = dashRounds \cup
                {[id |-> nDashRounds + 1, pending |-> DashParts, failed |-> FALSE]}
         /\ nDashRounds' = nDashRounds + 1

CanStartRound == nDashRounds < MaxRounds

\* First render committed: the effect runs.
DashMount ==
    /\ dashLifecycle = "created"
    /\ dashLifecycle' = "mounted"
    /\ DashEffect(dashDate)
    /\ ev' = [op |-> "dashMount"]
    /\ UNCHANGED <<hookVars, notDash, dashData, dashDate, dashFilters, dashSucceeded>>

\* The page re-renders with another date: the effect's dependencies changed.
DashSetDate(d) ==
    /\ dashLifecycle = "mounted"
    /\ d # dashDate
    /\ d # "" => CanStartRound
    /\ dashDate' = d
    /\ DashEffect(d)
    /\ ev' = [op |-> "dashSetDate"]
    /\ UNCHANGED <<hookVars, notDash, dashData, dashFilters, dashLifecycle, dashSucceeded>>

\* The page re-renders with filters of another JSON text.
DashSetFilters(f) ==
    /\ dashLifecycle = "mounted"
    /\ f # dashFilters
    /\ dashDate # "" => CanStartRound
    /\ dashFilters' = f
    /\ DashEffect(dashDate)
    /\ ev' = [op |-> "dashSetFilters"]
    /\ UNCHANGED <<hookVars, notDash, dashData, dashDate, dashLifecycle, dashSucceeded>>

\* the round r once its request `part` is answered
RoundsAfter(r, part, failed) ==
    IF r.pending = {part}
    THEN dashRounds \ {r}
    ELSE (dashRounds \ {r}) \cup
             {[r EXCEPT !.pending = r.pending \ {part}, !.failed = failed]}

\* One request of round r resolves. When it is the last of the three and
\* none was rejected, fetchData resumes after its await: setData, then the
\* finally block's setLoading(false).
DashPartResolves(r, part) ==
    /\ r \in dashRounds
    /\ part \in r.pending
    /\ LET done == r.pending = {part} /\ ~r.failed
       IN /\ dashData' = SetData(dashData, r.id, part, done)
          /\ dashLoading' = IF done THEN FALSE ELSE dashLoading
          /\ dashSucceeded' = IF done THEN dashSucceeded \cup {r.id}
                                      ELSE dashSucceeded
          /\ ev' = [op |-> "dashResolved", round |-> r.id, done |-> done,
                    failed |-> r.failed]
    /\ dashRounds' = RoundsAfter(r, part, r.failed)
    /\ UNCHANGED <<hookVars, notDash, dashError, dashDate, dashFilters, dashLifecycle,
                   nDashRounds>>

\* One request of round r is rejected with message m. The first rejection
\* of a round rejects Promise.all: the catch block's setError, then the
\* finally block's setLoading(false); later answers of the round are dropped.
DashPartRejects(r, part, m) ==
    /\ r \in dashRounds
    /\ part \in r.pending
    /\ IF r.failed
       THEN UNCHANGED <<dashError, dashLoading>>
       ELSE /\ dashError' = MessageOr(m, "Failed to fetch dashboard data")
            /\ dashLoading' = FALSE
    /\ dashRounds' = RoundsAfter(r, part, TRUE)
    /\ ev' = [op |-> "dashRejected", round |-> r.id, caught |-> ~r.failed]
    /\ UNCHANGED <<hookVars, notDash, dashData, dashDate, dashFilters, dashLifecycle,
                   nDashRounds, dashSucceeded>>

\* useDashboardData before its first render is committed
InitDashState ==
    /\ dashData = NoDashData
    /\ dashLoading = TRUE
    /\ dashError = Null
    /\ dashLifecycle = "created"
    /\ dashRounds = {}
    /\ nDashRounds = 0
    /\ dashSucceeded = {}

\* ---------------------------------------------------------------------
\* exportHelpers
\* ---------------------------------------------------------------------

\* A string is the sequence of its characters; the alphabet has one plain
\* character and the three that CSV treats specially.
Chars == {"a", ",", "\"", "\n"}
Strings(n) == UNION {[1..k -> Chars] : k \in 0..n}

\* The data argument: null, or an array of row objects. A row object is the
\* sequence of its <<key, value>> pairs in insertion order.
NullData == [isNull |-> TRUE, rows |-> <<>>]
Rows(q) == [isNull |-> FALSE, rows |-> q]

\* if (!data || data.length === 0)
NoData(d) == d.isNull \/ Len(d.rows) = 0

\* Object.keys(row)
Keys(row) == [k \in 1..Len(row) |-> row[k][1]]
\* row[header] ; undefined (written as '') when the row has no such key
Cell(row, header) ==
    IF \E k \in 1..Len(row) : row[k][1] = header
    THEN row[CHOOSE k \in 1..Len(row) : row[k][1] = header][2]
    ELSE <<>>

\* parts.join(sep)
RECURSIVE Join(_, _)
Join(parts, sep) ==
    IF Len(parts) = 0 THEN <<>>
    ELSE IF Len(parts) = 1 THEN parts[1]
    ELSE parts[1] \o <<sep>> \o Join(Tail(parts), sep)

\* cell.replace(/"/g, '""')
RECURSIVE DoubleQuotes(_)
DoubleQuotes(cell) ==
    IF Len(cell) = 0 THEN <<>>
    ELSE (IF Head(cell) = "\"" THEN <<"\"", "\"">> ELSE <<Head(cell)>>)
             \o DoubleQuotes(Tail(cell))

\* a cell as exportToCSV writes it
NeedsQuotes(cell) == \E k \in 1..Len(cell) : cell[k] \in {",", "\"", "\n"}
EscapeCell(cell) ==
    IF NeedsQuotes(cell) THEN <<"\"">> \o DoubleQuotes(cell) \o <<"\"">>
    ELSE cell

\* csvContent of exportToCSV: the header row headers.join(','), then one
\* line per row, joined by '\n'
ToCSV(rows) ==
    LET headers == Keys(rows[1])
        line(row) == Join([k \in 1..Len(headers) |->
                               EscapeCell(Cell(row, headers[k]))], ",")
    IN Join(<<Join(headers, ",")>> \o [k \in 1..Len(rows) |-> line(rows[k])],
            "\n")

\* the wrappers' exportData: every row rebuilt under the wrapper's own column
\* titles ('Zone', 'Facility', ... : plain names, here a, aa, ...)
ColumnTitle(k) == [j \in 1..k |-> "a"]
ExportData(rows) ==
    [r \in 1..Len(rows) |->
        [k \in 1..Len(rows[r]) |-> <<ColumnTitle(k), rows[r][k][2]>>]]

\* What a call does: the alert it raises ("" : none) and the file it writes.
NoFile == [type |-> "none", content |-> <<>>]
Warned(msg) == [alert |-> msg, file |-> NoFile]
Wrote(type, content) == [alert |-> "", file |-> [type |-> type, content |-> content]]

ExportToCSVResult(d) ==
    IF NoData(d) THEN Warned("No data to export")
    ELSE Wrote("csv", ToCSV(d.rows))

ExportToExcelResult_NoGuard(d) == Wrote("xlsx", d.rows)
ExportToExcelResult(d) ==
    IF NoData(d) THEN Warned("No data to export")
    ELSE Wrote("xlsx", d.rows)

ExportToPDFResult(d) ==
    IF NoData(d) THEN Warned("No data to export")
    ELSE Wrote("pdf", d.rows)

Formats == {"csv", "excel", "pdf", "json"}

\* exportZonesData, exportDevicesData, exportLiveDevicesData: the guard with
\* the wrapper's own warning, then the switch on format
WrapperResult(d, format, warning) ==
    IF NoData(d) THEN Warned(warning)
    ELSE LET exportData == Rows(ExportData(d.rows))
         IN CASE format = "csv" -> ExportToCSVResult(exportData)
              [] format = "excel" -> ExportToExcelResult(exportData)
              [] format = "pdf" -> ExportToPDFResult(exportData)
              [] OTHER -> [alert |-> "", file |-> NoFile]

\* a call with outcome res
ExportCall(res, op, format) ==
    /\ alertShown' = res.alert
    /\ download' = IF res.file.type = "none" THEN download ELSE res.file
    /\ ev' = [op |-> op, format |-> format]
    /\ UNCHANGED <<hookVars, notExport, exportInput>>

ExportToCSV == ExportCall(ExportToCSVResult(exportInput), "exportToCSV", "csv")
ExportToExcel ==
    ExportCall(ExportToExcelResult(exportInput), "exportToExcel", "excel")
ExportToPDF == ExportCall(ExportToPDFResult(exportInput), "exportToPDF", "pdf")
ExportZonesData(format) ==
    ExportCall(WrapperResult(exportInput, format, "No zones data to export"),
               "exportZonesData", format)
ExportDevicesData(format) ==
    ExportCall(WrapperResult(exportInput, format, "No devices data to export"),
               "exportDevicesData", format)
ExportLiveDevicesData(format) ==
    ExportCall(WrapperResult(exportInput, format,
                             "No live devices data to export"),
               "exportLiveDevicesData", format)

\* no export function has been called
InitExportState ==
    /\ alertShown = ""
    /\ download = NoFile

\* ---------------------------------------------------------------------
\* Health colour of a device
\* ---------------------------------------------------------------------

\* health_score is a percentage
Scores == 0..100

\* DeviceCard.getHealthColor
CardHealthColor(score) ==
    IF score >= 80 THEN "bg-green-500"
    ELSE IF score >= 50 THEN "bg-yellow-500"
    ELSE "bg-red-500"

\* DeviceHeartbeat: the className of the health bar
HeartbeatBarClass_Above50(score) ==
    IF score >= 80 THEN "bg-green-500"
    ELSE IF score > 50 THEN "bg-yellow-500"
    ELSE "bg-red-500"

HeartbeatBarClass(score) ==
    IF score >= 80 THEN "bg-green-500"
    ELSE IF score >= 50 THEN "bg-yellow-500"
    ELSE "bg-red-500"

\* DeviceHeartbeat.getHealthColor
GetHealthColor(score) ==
    IF score >= 80 THEN "text-green-600"
    ELSE IF score >= 50 THEN "text-yellow-600"
    ELSE "text-red-600"

\* DeviceCard renders the device.
RenderDeviceCard ==
    /\ cardBar' = CardHealthColor(health_score)
    /\ ev' = [op |-> "renderDeviceCard"]
    /\ UNCHANGED <<hookVars, notHealth, health_score, heartbeatBar, heartbeatText>>

\* DeviceHeartbeat renders the device.
RenderDeviceHeartbeat ==
    /\ heartbeatBar' = HeartbeatBarClass(health_score)
    /\ heartbeatText' = GetHealthColor(health_score)
    /\ ev' = [op |-> "renderDeviceHeartbeat"]
    /\ UNCHANGED <<hookVars, notHealth, health_score, cardBar>>

\* no device view has rendered
InitHealthState ==
    /\ cardBar = ""
    /\ heartbeatBar = ""
    /\ heartbeatText = ""

\* ---------------------------------------------------------------------
\* The legacy FilterPanel
\* ---------------------------------------------------------------------

\* GET /facilities/ as the legacy panel needs it: every record with its zones
LegacyFacilityList ==
    <<[id |-> 1, nested |-> TRUE, zones |-> ZonesOf(1)],
      [id |-> 2, nested |-> TRUE, zones |-> ZonesOf(2)]>>

\* the value attribute of the option of a facility or a zone
OptionValue(id) ==
    CASE id = 1 -> "1" [] id = 2 -> "2" [] id = 11 -> "11" [] id = 21 -> "21"

FacilityOptions(s) ==
    {""} \cup {OptionValue(s.facilities[k].id) : k \in 1..Len(s.facilities)}
ZoneOptions(s) == {""} \cup {OptionValue(s.zones[k]) : k \in 1..Len(s.zones)}
StatusFilterOptions == {"", "OK"}
SearchQueries == {"", "x"}
SortByOptions == {"name", "health"}
SortOrders == {"asc", "desc"}

\* the filters object of the notify effect, built from the state s of the
\* render the effect belongs to
LegacyFilterObject(s) ==
    LET all == [facility |-> s.selectedFacility, zone |-> s.selectedZone,
                status |-> s.selectedStatus, search |-> s.searchQuery]
        keys == {k \in DOMAIN all : all[k] # ""} \cup {"sort_by", "order"}
    IN [k \in keys |-> CASE k = "sort_by" -> s.sortBy
                         [] k = "order" -> s.sortOrder
                         [] OTHER -> all[k]]

\* the zones effect's setZones argument
LegacyZones(s) ==
    IF s.selectedFacility = "" THEN <<>>
    ELSE LET found == FindFacility(s.facilities, s.selectedFacility)
         IN IF found = {} THEN <<>>
            ELSE s.facilities[CHOOSE k \in found : \A j \in found : k <= j].zones

\* the dependencies of the zones effect, of the notify effect
ZonesDeps(s) == <<s.selectedFacility, s.facilities>>
NotifyDeps(s) == <<s.selectedFacility, s.selectedZone, s.selectedStatus,
                   s.searchQuery, s.sortBy, s.sortOrder>>

\* The state after the effects of a render with state s ran, the render
\* before it having had state prev (first: the first render, whose effects
\* all run): the zones effect's setZones and setSelectedZone('').
AfterEffects(prev, s, first) ==
    IF first \/ ZonesDeps(s) # ZonesDeps(prev)
    THEN [s EXCEPT !.zones = LegacyZones(s), !.selectedZone = ""]
    ELSE s

\* The onFilterChange calls of a commit: the notify effect of the render
\* with state s runs with that render's values; the state updates of the
\* zones effect cause one more render, whose notify effect runs when
\* selectedZone changed.
NotifyCalls(prev, s, first) ==
    LET next == AfterEffects(prev, s, first)
    IN (IF first \/ NotifyDeps(s) # NotifyDeps(prev)
        THEN <<LegacyFilterObject(s)>> ELSE <<>>)
       \o (IF NotifyDeps(next) # NotifyDeps(s)
           THEN <<LegacyFilterObject(next)>> ELSE <<>>)

\* A render with state s is committed and its effects run.
LegacyCommit(s, first, op) ==
    /\ legacy' = AfterEffects(legacy, s, first)
    /\ notified' = NotifyCalls(legacy, s, first)
    /\ ev' = [op |-> op]
    /\ UNCHANGED <<hookVars, notLegacy>>

\* First render committed: the facility request is sent, the zones effect
\* and the notify effect run.
LegacyMount ==
    /\ legacy.request = "none"
    /\ LegacyCommit([legacy EXCEPT !.request = "sent"], TRUE, "legacyMount")

\* api.getFacilities() resolves: setFacilities(data)
LegacyFacilitiesLoaded ==
    /\ legacy.request = "sent"
    /\ LegacyCommit([legacy EXCEPT !.request = "done",
                                   !.facilities = LegacyFacilityList],
                    FALSE, "legacyFacilitiesLoaded")

\* api.getFacilities() rejects: the catch block logs
LegacyFacilitiesFailed ==
    /\ legacy.request = "sent"
    /\ LegacyCommit([legacy EXCEPT !.request = "done"], FALSE,
                    "legacyFacilitiesFailed")

\* onChange of the facility select: setSelectedFacility(e.target.value)
LegacySelectFacility(v) ==
    /\ legacy.request # "none"
    /\ v \in FacilityOptions(legacy)
    /\ v # legacy.selectedFacility
    /\ LegacyCommit([legacy EXCEPT !.selectedFacility = v], FALSE,
                    "legacySelectFacility")

\* onChange of the zone select: setSelectedZone(e.target.value)
LegacySelectZone(v) ==
    /\ legacy.request # "none"
    /\ v \in ZoneOptions(legacy)
    /\ v # legacy.selectedZone
    /\ LegacyCommit([legacy EXCEPT !.selectedZone = v], FALSE, "legacySelectZone")

\* onChange of the status select, the search box, the sort selects
LegacySetField(field, v) ==
    /\ legacy.request # "none"
    /\ v # legacy[field]
    /\ LegacyCommit([legacy EXCEPT ![field] = v], FALSE, "legacySetField")

\* handleReset
LegacyReset ==
    /\ legacy.request # "none"
    /\ LegacyCommit([legacy EXCEPT !.selectedFacility = "", !.selectedZone = "",
                                   !.selectedStatus = "", !.searchQuery = "",
                                   !.sortBy = "name", !.sortOrder = "asc"],
                    FALSE, "legacyReset")

\* the legacy FilterPanel before its first render is committed
InitLegacyState ==
    /\ legacy = [request |-> "none", facilities |-> <<>>, zones |-> <<>>,
                 selectedFacility |-> "", selectedZone |-> "",
                 selectedStatus |-> "", searchQuery |-> "",
                 sortBy |-> "name", sortOrder |-> "asc"]
    /\ notified = <<>>

\* The views that are not on the page: a component that is not rendered has
\* no state, a function that is not called no argument.
NotOnPage == "absent"

InitDashIdle ==
    /\ dashData = NotOnPage
    /\ dashLoading = TRUE
    /\ dashError = Null
    /\ dashLifecycle = "created"
    /\ dashRounds = {}
    /\ nDashRounds = 0
    /\ dashSucceeded = {}
    /\ dashDate = ""
    /\ dashFilters = "{}"

InitExportIdle ==
    /\ alertShown = ""
    /\ download = NotOnPage
    /\ exportInput = NotOnPage

InitLegacyIdle ==
    /\ legacy = NotOnPage
    /\ notified = <<>>

InitHealthIdle ==
    /\ InitHealthState
    /\ health_score = 0

\* AlertFilters' selects show their first option, All
InitSelectState ==
    /\ severitySelect = ""
    /\ statusSelect = ""

InitViewIdle ==
    /\ InitDashIdle
    /\ InitExportIdle
    /\ InitHealthIdle
    /\ InitSelectState
    /\ InitLegacyIdle

\* ---------------------------------------------------------------------
\* The specifications
\* ---------------------------------------------------------------------

InitAlertState ==
    /\ alerts = <<>>
    /\ stats = [total |-> 0, acknowledged |-> 0, unacknowledged |-> 0]
    /\ alertsLoading = TRUE
    /\ alertsError = Null
    /\ filters = [facility |-> "", is_active |-> "true"]
    /\ selectedAlerts = <<>>
    /\ alertsMounted = FALSE
    /\ getReqs = {}
    /\ ackOps = {}
    /\ nGetAlerts = 0
    /\ nAckReq = 0

\* useFilters as the analytics page constructs it
InitFilterState ==
    /\ initialFilters = [k \in {"facility", "zone"} |-> Str("")]
    /\ constructedWith = initialFilters
    /\ uFilters = initialFilters
    /\ activeCount = ActiveCount(initialFilters)
    /\ onFilterChangeArg = initialFilters

\* useFacilitiesAndZones before its first render is committed
InitFacilityState ==
    /\ facilities = <<>>
    /\ zones = <<>>
    /\ facLoading = TRUE
    /\ facError = Null
    /\ facLifecycle = "created"
    /\ facReqs = {}
    /\ nFacReq = 0
    /\ nZoneReq = 0

\* a polling hook that is not on the page
InitPollIdle ==
    /\ InitPoll
    /\ hook = "useLiveDevices"
    /\ enabled = TRUE
    /\ interval = 1

\* the polling hooks, with no alert panel on the page
InitLive ==
    /\ InitPoll
    /\ InitAlertState
    /\ InitFilterState
    /\ InitFacilityState
    /\ selectedFacility = ""
    /\ serverAcked = {}
    /\ ev = [op |-> "init"]
    /\ InitViewIdle

SpecLive == InitLive /\ [][NextLive]_vars

\* the alert panel, with no polling hook on the page
InitAlerts ==
    /\ InitAlertState
    /\ serverAcked \in SUBSET {1}
    /\ InitPoll
    /\ hook = "useLiveDevices"
    /\ enabled = TRUE
    /\ interval = 1
    /\ InitFilterState
    /\ InitFacilityState
    /\ selectedFacility = ""
    /\ ev = [op |-> "init"]
    /\ InitViewIdle

NextAlerts ==
    \/ AlertsMount
    \/ \E nf \in [facility : FacilityFilters] : UpdateFilters(nf)
    \/ \E id \in AlertIds : ToggleAlertSelection(id)
    \/ \E checked \in BOOLEAN : SelectAllAlerts(checked)
    \/ \E id \in AlertIds : AcknowledgeAlert(id)
    \/ BulkAcknowledgeAlerts
    \/ \E o \in ackOps : AckSuccess(o)
    \/ \E o \in ackOps, m \in ErrMessages : AckFailure(o, m)
    \/ \E r \in getReqs : ServerAnswers(r)
    \/ \E r \in getReqs : FetchAlertsSuccess(r)
    \/ \E r \in getReqs, m \in ErrMessages : FetchAlertsFailure(r, m)

SpecAlerts == InitAlerts /\ [][NextAlerts]_vars

\* useFilters alone
InitFilters ==
    /\ initialFilters \in InitialObjects
    /\ constructedWith = initialFilters
    /\ uFilters = initialFilters
    /\ activeCount = ActiveCount(initialFilters)
    /\ onFilterChangeArg = initialFilters
    /\ InitFacilityState
    /\ selectedFacility = ""
    /\ InitPollIdle
    /\ InitAlertState
    /\ serverAcked = {}
    /\ ev = [op |-> "init"]
    /\ InitViewIdle

NextFilters ==
    \/ \E key \in FilterKeys, value \in FilterValues : UpdateFilter(key, value)
    \/ ResetFilters
    \/ \E obj \in SetFiltersArgs : SetFilters(obj)
    \/ \E obj \in InitialObjects : RenderWithInitial(obj)

SpecFilters == InitFilters /\ [][NextFilters]_vars

\* useFacilitiesAndZones alone
InitFacilities ==
    /\ InitFacilityState
    /\ selectedFacility \in Selections
    /\ InitFilterState
    /\ InitPollIdle
    /\ InitAlertState
    /\ serverAcked = {}
    /\ ev = [op |-> "init"]
    /\ InitViewIdle

NextFacilities ==
    \/ FacMount
    \/ \E sel \in Selections : SelectFacility(sel)
    \/ \E r \in facReqs, list \in FacilityLists : FacilitiesSuccess(r, list)
    \/ \E r \in facReqs, m \in ErrMessages : FacilitiesFailure(r, m)

SpecFacilities == InitFacilities /\ [][NextFacilities]_vars

\* useDashboardData alone
InitHooksIdle ==
    /\ InitPollIdle
    /\ InitAlertState
    /\ serverAcked = {}
    /\ InitFilterState
    /\ InitFacilityState
    /\ selectedFacility = ""

InitDashboard ==
    /\ InitDashState
    /\ dashDate \in DashDates
    /\ dashFilters \in DashFilters
    /\ InitHooksIdle
    /\ InitExportIdle
    /\ ev = [op |-> "init"]
    /\ InitHealthIdle
    /\ InitSelectState
    /\ InitLegacyIdle

NextDashboard ==
    \/ DashMount
    \/ \E d \in DashDates : DashSetDate(d)
    \/ \E f \in DashFilters : DashSetFilters(f)
    \/ \E r \in dashRounds, part \in DashParts : DashPartResolves(r, part)
    \/ \E r \in dashRounds, part \in DashParts, m \in ErrMessages :
           DashPartRejects(r, part, m)

SpecDashboard == InitDashboard /\ [][NextDashboard]_vars

\* the export functions, called on null, an empty array and arrays of rows
ExportInputs ==
    {NullData, Rows(<<>>)}
        \cup {Rows(<< <<<<<<"a">>, c>>>> >>) : c \in Strings(1)}
        \cup {Rows(<< <<<<<<"a">>, <<"a">>>>>>, <<<<<<"a">>, <<>>>>>> >>)}

InitExport ==
    /\ InitExportState
    /\ exportInput \in ExportInputs
    /\ InitDashIdle
    /\ InitHooksIdle
    /\ ev = [op |-> "init"]
    /\ InitHealthIdle
    /\ InitSelectState
    /\ InitLegacyIdle

NextExport ==
    \/ ExportToCSV
    \/ ExportToExcel
    \/ ExportToPDF
    \/ \E format \in Formats : ExportZonesData(format)
    \/ \E format \in Formats : ExportDevicesData(format)
    \/ \E format \in Formats : ExportLiveDevicesData(format)

SpecExport == InitExport /\ [][NextExport]_vars

\* the one-row tables of two columns whose header names and cell values are
\* strings of at most n characters
CsvTables(n) ==
    {Rows(<< << <<h1, c1>>, <<h2, c2>> >> >>) :
        h1 \in Strings(n), h2 \in Strings(n),
        c1 \in Strings(n), c2 \in Strings(n)}

InitCSV ==
    /\ InitExportState
    /\ exportInput \in {t \in CsvTables(MaxLen) :
                             t.rows[1][1][1] # t.rows[1][2][1]}
    /\ InitDashIdle
    /\ InitHooksIdle
    /\ ev = [op |-> "init"]
    /\ InitHealthIdle
    /\ InitSelectState
    /\ InitLegacyIdle

NextCSV == ExportToCSV

SpecCSV == InitCSV /\ [][NextCSV]_vars

\* the device views, for every health score
InitHealth ==
    /\ InitHealthState
    /\ health_score \in Scores
    /\ InitDashIdle
    /\ InitExportIdle
    /\ InitHooksIdle
    /\ ev = [op |-> "init"]
    /\ InitSelectState
    /\ InitLegacyIdle

NextHealth ==
    \/ RenderDeviceCard
    \/ RenderDeviceHeartbeat

SpecHealth == InitHealth /\ [][NextHealth]_vars

\* the alert panel with its filter form: FilterPanel's filterParams and
\* AlertFilters' options
PanelParams ==
    {[k \in {"sort_by", "order"} |-> IF k = "sort_by" THEN "name" ELSE "asc"]}
    \cup {[k \in {"facility", "sort_by", "order"} |->
               CASE k = "facility" -> "A" [] k = "sort_by" -> "name"
                 [] OTHER -> "asc"]}
SeverityOptions == {"", "CRITICAL"}
StatusOptions == {"", "false"}

InitAlertPanel ==
    /\ InitAlerts
    /\ serverAcked = {}

NextAlertPanel ==
    \/ AlertsMount
    \/ \E nf \in PanelParams : UpdateFilters(nf)
    \/ \E severity \in SeverityOptions : HandleSeverityChange(severity)
    \/ \E acknowledged \in StatusOptions : HandleStatusChange(acknowledged)
    \/ \E r \in getReqs : ServerAnswers(r)
    \/ \E r \in getReqs : FetchAlertsSuccess(r)
    \/ \E r \in getReqs, m \in ErrMessages : FetchAlertsFailure(r, m)

SpecAlertPanel == InitAlertPanel /\ [][NextAlertPanel]_vars

\* the legacy FilterPanel alone
InitLegacyPanel ==
    /\ InitLegacyState
    /\ InitDashIdle
    /\ InitExportIdle
    /\ InitHealthIdle
    /\ InitSelectState
    /\ InitHooksIdle
    /\ ev = [op |-> "init"]

NextLegacyPanel ==
    \/ LegacyMount
    \/ LegacyFacilitiesLoaded
    \/ LegacyFacilitiesFailed
    \/ \E v \in {"", "1", "2"} : LegacySelectFacility(v)
    \/ \E v \in {"", "11", "21"} : LegacySelectZone(v)
    \/ \E v \in StatusFilterOptions : LegacySetField("selectedStatus", v)
    \/ \E v \in SearchQueries : LegacySetField("searchQuery", v)
    \/ \E v \in SortByOptions : LegacySetField("sortBy", v)
    \/ \E v \in SortOrders : LegacySetField("sortOrder", v)
    \/ LegacyReset

SpecLegacyPanel == InitLegacyPanel /\ [][NextLegacyPanel]_vars

\* ---------------------------------------------------------------------
\* Properties of the polling hooks
\* ---------------------------------------------------------------------

SetupOps == {"mount", "setEnabled", "setInterval"}
\* the instance has a fetch function to call
HasFetchFn(cb) == hook = "useLiveDevices" \/ cb # Null

\* C1: when enabled, every run of the interval effect invokes the fetch
\* function once at once and starts a timer of the current interval; every
\* tick of that timer invokes it once more, whether or not earlier requests
\* are still in flight; a tick happens only while enabled and mounted, and no
\* timer is left once enabled is false or the component is torn down.
C1_PollingCadence ==
    [][ /\ (ev'.op \in SetupOps /\ enabled' /\ HasFetchFn(savedCallback'))
            => /\ nFetch' = nFetch + 1
               /\ \E t \in timers' : t.due = now + interval' /\ t.period = interval'
        /\ ev'.op = "tick"
            => /\ enabled /\ lifecycle = "mounted"
               /\ HasFetchFn(savedCallback) => nFetch' = nFetch + 1
        /\ (~enabled' \/ lifecycle' # "mounted") => timers' = {}
      ]_vars

\* a tick fired while two earlier requests were still in flight
C1_Witness == ev.op = "tick" /\ Cardinality(inflight) >= 3

\* C2: right after a successful response is committed while mounted, data is
\* that payload, lastUpdated is set, loading is false and error is null.
C2_SuccessCommit ==
    (ev.op = "success" /\ ev.committed)
        => /\ data = ev.payload
           /\ lastUpdated # <<>>
           /\ loading = FALSE
           /\ error = Null

\* C3: a failure committed while mounted leaves data and lastUpdated as they
\* were, makes error a non-empty message and loading false.
C3_FailureKeepsData ==
    [][ (ev'.op = "failure" /\ ev'.committed)
            => /\ data' = data
               /\ lastUpdated' = lastUpdated
               /\ error' # Null /\ error' # ""
               /\ loading' = FALSE
      ]_vars

\* a failure was committed over a payload stored earlier
C3_Witness == ev.op = "failure" /\ ev.committed /\ data # Null /\ error # Null

\* C4: unmounting clears the timer and leaves the requests in flight; after
\* it, no step (in particular no response) changes data, error, lastUpdated
\* or loading, and no timer exists.
C4_UnmountDiscards ==
    [][ /\ ev'.op = "unmount" => (timers' = {} /\ inflight' = inflight)
        /\ lifecycle = "unmounted"
            => /\ UNCHANGED <<data, error, lastUpdated, loading>>
               /\ timers' = {}
      ]_vars

\* a response arrived after the unmount and was discarded
C4_Witness ==
    /\ lifecycle = "unmounted"
    /\ ev.op \in {"success", "failure"}
    /\ ~ev.committed
    /\ inflight # {}

\* C5: every response that arrives while mounted is applied; once nothing is
\* in flight, data is the payload of the successful response that arrived
\* last, whatever the order in which the requests were issued.
C5_LastArrivalWins ==
    /\ (ev.op \in {"success", "failure"} /\ isMountedRef) => ev.committed
    /\ (isMountedRef /\ inflight = {} /\ lastOk.req # 0) => data = lastOk.payload

\* the response that arrived last belongs to a request issued before one
\* whose response had already been committed
C5_Witness ==
    /\ isMountedRef
    /\ inflight = {}
    /\ ev.op = "success"
    /\ lastOk.req < newestOk
    /\ data = lastOk.payload

\* C6: refresh() sets loading, issues exactly one request and leaves the
\* timer alone: same timers, same due instants, same ref.
C6_RefreshFrame ==
    [][ ev'.op = "refresh"
            => /\ loading' = TRUE
               /\ nFetch' = nFetch + 1
               /\ Cardinality(inflight') = Cardinality(inflight) + 1
               /\ timers' = timers
               /\ intervalRef' = intervalRef
               /\ timersCreated' = timersCreated
      ]_vars

\* refresh() was called part-way through an interval of a running timer
C6_Witness ==
    /\ ev.op = "refresh"
    /\ \E t \in timers : t.due - t.period < now /\ now < t.due

\* C7: the fetch function has been invoked once per timer set-up, once per
\* tick and once per refresh() and never otherwise; a failure issues no
\* request and leaves the timers alone.
C7_NoRetry ==
    /\ [](hook = "useLiveDevices" => nFetch = nSetup + nTick + nRefresh)
    /\ [][ ev'.op = "failure"
             => /\ nFetch' = nFetch
                /\ inflight' = inflight \ {ev'.req}
                /\ timers' = timers
         ]_vars

\* a failure was committed while the timer was running, after a set-up, a
\* tick and a refresh
C7_Witness ==
    /\ ev.op = "failure" /\ ev.committed
    /\ timers # {}
    /\ nSetup > 0 /\ nTick > 0 /\ nRefresh > 0

\* ---------------------------------------------------------------------
\* Properties of useAlerts
\* ---------------------------------------------------------------------

\* the step ends an acknowledge call whose acknowledge request failed
AckFailedStep ==
    \E o \in ackOps : o.phase = "ack" /\ \A q \in ackOps' : q.op # o.op

\* C8: a bulk acknowledge of a non-empty selection sends the selection in one
\* request and fetches nothing before the answer; whenever it reports
\* success it has issued exactly one re-fetch and selectedAlerts is empty,
\* whether the re-fetch succeeded or failed.
C8_BulkAckSuccess ==
    [][ /\ (ev'.op = "call" /\ ev'.kind = "bulk")
            => /\ ev'.ids = selectedAlerts
               /\ nAckReq' = nAckReq + 1
               /\ nGetAlerts' = nGetAlerts
        /\ (ev'.op = "return" /\ ev'.kind = "bulk" /\ ev'.success)
            => /\ ev'.fetches = 1
               /\ selectedAlerts' = <<>>
      ]_vars

\* C9: every selected id is the id of a listed alert shown as
\* unacknowledged, and when an acknowledge call (single or bulk) has
\* reported success none of its ids is selected.
C9_SelectionUnacknowledged ==
    /\ \A id \in Range(selectedAlerts) :
          \E k \in 1..Len(alerts) : alerts[k].id = id /\ ~alerts[k].acknowledged
    /\ (ev.op = "return" /\ ev.success) => Range(ev.ids) \cap Range(selectedAlerts) = {}

\* C10: when the acknowledge request of a call fails, or bulk acknowledge is
\* called with nothing selected, the call returns success = false with a
\* non-empty error; selectedAlerts, alerts and stats stay as they were and no
\* request of either kind is issued.
C10_AckFailure ==
    [][ (AckFailedStep \/ (ev'.op = "return" /\ ~ev'.success))
            => /\ ev'.op = "return"
               /\ ev'.success = FALSE
               /\ ev'.error # Null /\ ev'.error # ""
               /\ ev'.fetches = 0
               /\ UNCHANGED <<selectedAlerts, alerts, stats, getReqs,
                              nGetAlerts, nAckReq>>
               /\ ackOps' \subseteq ackOps
      ]_vars

\* a bulk acknowledge failed with two alerts selected, one shown as pending
\* and a list on display
C10_Witness ==
    /\ ev.op = "return" /\ ~ev.success
    /\ ev.kind = "bulk"
    /\ Len(ev.ids) > 0
    /\ selectedAlerts = ev.ids
    /\ Len(alerts) > 0

\* the alerts list shows alert id as acknowledged / as unacknowledged
ShownAcknowledged(as, id) ==
    \E k \in 1..Len(as) : as[k].id = id /\ as[k].acknowledged
ShownUnacknowledged(as, id) ==
    \E k \in 1..Len(as) : as[k].id = id /\ ~as[k].acknowledged

\* C11: an alert the list shows as acknowledged is not shown as
\* unacknowledged by the next state of the list, whatever step produces it.
C11_AcknowledgedTerminal ==
    [][ \A id \in AlertIds :
            ShownAcknowledged(alerts, id) => ~ShownUnacknowledged(alerts', id)
      ]_vars

\* the step commits the response of a getAlerts request
CommitsResponse ==
    \E r \in getReqs :
        /\ r.snap # <<>>
        /\ getReqs' = getReqs \ {r}
        /\ alerts' = r.snap[1].alerts
        /\ stats'.total = r.snap[1].total

\* C12: alerts and stats change only in a step that commits a getAlerts
\* response; starting an acknowledge call and the success of its request
\* leave both as they were; the success of the request issues exactly one
\* getAlerts request with the call's filters, and a call (single or bulk)
\* that reports success has issued exactly one.
C12_NoLocalPatch ==
    [][ /\ (alerts' # alerts \/ stats' # stats) => CommitsResponse
        /\ ev'.op \in {"call", "ackSuccess"}
            => (alerts' = alerts /\ stats' = stats)
        /\ ev'.op = "call" => nGetAlerts' = nGetAlerts
        /\ ev'.op = "ackSuccess"
            => /\ nGetAlerts' = nGetAlerts + 1
               /\ Cardinality(getReqs') = Cardinality(getReqs) + 1
        /\ (ev'.op = "return" /\ ev'.success) => ev'.fetches = 1
      ]_vars

\* a single acknowledge succeeded while the list still showed its alert as
\* unacknowledged, and its re-fetch is in flight
C12_Witness ==
    /\ ev.op = "ackSuccess" /\ ev.kind = "single"
    /\ ShownUnacknowledged(alerts, ev.ids[1])
    /\ ev.ids[1] \in serverAcked
    /\ getReqs # {}

\* the ids of the listed alerts whose acknowledged flag is false
UnacknowledgedSet(as) == {as[k].id : k \in {j \in 1..Len(as) : ~as[j].acknowledged}}

\* C13: selectAllAlerts(true) makes the selection exactly the unacknowledged
\* alerts of the list on display, each once; selectAllAlerts(false) makes it
\* empty; isAllSelected is true exactly when the selection is that set and
\* the set is not empty.
C13_SelectAll ==
    /\ [][ ev'.op = "selectAll"
             => IF ev'.checked
                THEN /\ Range(selectedAlerts') = UnacknowledgedSet(alerts)
                     /\ Len(selectedAlerts') = Cardinality(UnacknowledgedSet(alerts))
                     /\ alerts' = alerts
                ELSE selectedAlerts' = <<>>
         ]_vars
    /\ [](IsAllSelected <=> /\ Range(selectedAlerts) = UnacknowledgedSet(alerts)
                            /\ UnacknowledgedSet(alerts) # {})

\* select-all was ticked on a list that holds an acknowledged alert next to
\* an unacknowledged one
C13_Witness ==
    /\ ev.op = "selectAll" /\ ev.checked
    /\ \E k \in 1..Len(alerts) : alerts[k].acknowledged
    /\ selectedAlerts # <<>>
    /\ IsAllSelected

\* ---------------------------------------------------------------------
\* Properties of useFilters
\* ---------------------------------------------------------------------

\* C14: the state committed by updateFilter('facility', value) has that
\* facility and zone = '', every other field as before; updateFilter with
\* another key changes that key only; onFilterChange is called with the
\* committed state, so it never gets the new facility with the old zone.
C14_FacilityResetsZone ==
    /\ [][ ev'.op = "updateFilter"
             => LET touched == IF ev'.key = "facility"
                               THEN {"facility", "zone"} ELSE {ev'.key}
                IN /\ DOMAIN uFilters' = DOMAIN uFilters \cup touched
                   /\ uFilters'[ev'.key] = ev'.value
                   /\ ev'.key = "facility" => uFilters'["zone"] = Str("")
                   /\ \A k \in DOMAIN uFilters \ touched : uFilters'[k] = uFilters[k]
         ]_vars
    /\ [](onFilterChangeArg = uFilters)

\* another facility was chosen while a zone was selected
C14_Witness ==
    /\ ev.op = "updateFilter" /\ ev.key = "facility"
    /\ ev.zoneWasSet
    /\ uFilters["facility"] = Str("1")
    /\ onFilterChangeArg["zone"] = Str("")

\* C15: resetFilters() sets the filter state to the initialFilters object
\* the hook was constructed with, whatever was passed on later renders.
C15_ResetToConstruction ==
    [][ ev'.op = "resetFilters" => uFilters' = constructedWith ]_vars

\* '', 0 and an empty list
Unset(v) == v \in {Str(""), Num(0), Lst(<<>>)}

FacFailureSteps == {"facilitiesFailed"}

\* C17: a mounted instance has issued exactly one facility-list request;
\* a change of selectedFacility issues none; when the request fails, error is
\* a non-empty message, loading is false, facilities is still empty and
\* nothing is requested again.
C17_FacilitiesOnce ==
    /\ [](nFacReq = IF facLifecycle = "mounted" THEN 1 ELSE 0)
    /\ [][ /\ ev'.op = "selectFacility"
               => (nFacReq' = nFacReq /\ facReqs' = facReqs)
           /\ ev'.op \in FacFailureSteps
               => /\ facError' # Null /\ facError' # ""
                  /\ facLoading' = FALSE
                  /\ facilities' = <<>>
                  /\ facReqs' = {}
                  /\ nFacReq' = nFacReq
         ]_vars

\* the selection changed after the facility-list request had failed
C17_Witness ==
    /\ ev.op = "selectFacility"
    /\ facError # Null
    /\ facilities = <<>>
    /\ facReqs = {}
    /\ nFacReq = 1

\* the record of the selected facility in the loaded list, if any
SelectedRecords(facs, sel) == {facs[k] : k \in FindFacility(facs, sel)}

\* C18: selecting a facility whose record has a zones member sets zones to
\* it and issues no zone request; selecting one whose record has none
\* issues exactly one zone request.
C18_ZoneRequests ==
    [][ (ev'.op = "selectFacility" /\ selectedFacility' # "")
            => \A f \in SelectedRecords(facilities, selectedFacility') :
                   IF f.nested
                   THEN zones' = f.zones /\ nZoneReq' = nZoneReq
                   ELSE nZoneReq' = nZoneReq + 1
      ]_vars

C20_FailureSetsError ==
    [][ (ev'.op \in FacFailureSteps
           \/ (ev'.op \in {"facMount", "selectFacility", "facilitiesLoaded"}
                 /\ ev'.zonesBranch = "threw"))
            => facError' # Null
      ]_vars

\* ---------------------------------------------------------------------
\* Timer hygiene and the loading flag of the polling hooks
\* ---------------------------------------------------------------------

\* C28: whatever the instance went through, at most one of its interval
\* timers is active; when a timer is created every earlier one has been
\* cleared; no timer is active while enabled is false or after teardown.
C28_OneTimer ==
    [][ /\ Cardinality(timers') <= 1
        /\ timersCreated' # timersCreated
              => \A t \in timers' : t.id = timersCreated'
        /\ (~enabled' \/ lifecycle' # "mounted") => timers' = {}
      ]_vars

\* a second timer was created and is the only one active
C28_Witness ==
    /\ timersCreated >= 2
    /\ ev.op \in SetupOps
    /\ timers # {}

\* C29: while a useLiveDevices instance is mounted, loading = true implies
\* that a fetch is in flight, whatever the value of enabled.
C29_LoadingHasRequest ==
    (hook = "useLiveDevices" /\ lifecycle = "mounted" /\ loading)
        => inflight # {}

\* ---------------------------------------------------------------------
\* Properties of useDashboardData
\* ---------------------------------------------------------------------

\* C21: the three parts of data always come from one fetch round, a round
\* whose three requests all succeeded (or all three are null); when a
\* request of a round fails, no part of data changes, error becomes a
\* message and loading false, and no later answer of that round changes data.
C21_FullReplace ==
    /\ [](/\ dashData["summary"] = dashData["zones"]
           /\ dashData["zones"] = dashData["devices"]
           /\ dashData["summary"] \in dashSucceeded \cup {0})
    /\ [][ /\ ev'.op = "dashRejected"
               => /\ dashData' = dashData
                  /\ ev'.caught => /\ dashError' \notin {Null, ""}
                                    /\ dashLoading' = FALSE
           /\ (ev'.op = "dashResolved" /\ ev'.failed) => dashData' = dashData
         ]_vars

\* a round failed while the data of an earlier round was on display
C21_Witness ==
    /\ ev.op = "dashRejected"
    /\ ev.caught
    /\ dashData["summary"] # 0
    /\ dashError # Null

\* ---------------------------------------------------------------------
\* Properties of exportHelpers
\* ---------------------------------------------------------------------

ExportOps == {"exportToCSV", "exportToExcel", "exportToPDF", "exportZonesData",
              "exportDevicesData", "exportLiveDevicesData"}

\* C22: every export entry point called on null or on an empty array raises
\* a no-data warning and writes no file.
C22_NoDataWarning ==
    [][ (ev'.op \in ExportOps /\ NoData(exportInput))
            => /\ alertShown' \in {"No data to export", "No zones data to export",
                                  "No devices data to export",
                                  "No live devices data to export"}
               /\ download' = download
               /\ download' = NoFile
      ]_vars

\* a wrapper was asked for an Excel file of an empty array
C22_Witness ==
    /\ ev.op = "exportDevicesData"
    /\ ev.format = "excel"
    /\ ~exportInput.isNull
    /\ Len(exportInput.rows) = 0

\* Reading CSV text by the quoting rules: fields are separated by commas and
\* records by newlines; a field that opens with a double quote runs to its
\* closing double quote, a doubled double quote inside standing for one.
\* i: position; quoted: inside a quoted field; fresh: at the start of a field.
RECURSIVE ReadCSV(_, _, _, _, _, _, _)
ReadCSV(text, i, quoted, fresh, field, record, records) ==
    IF i > Len(text)
    THEN Append(records, Append(record, field))
    ELSE LET c == text[i]
         IN IF quoted
            THEN IF c = "\""
                 THEN IF i < Len(text) /\ text[i + 1] = "\""
                      THEN ReadCSV(text, i + 2, TRUE, FALSE, Append(field, c),
                                   record, records)
                      ELSE ReadCSV(text, i + 1, FALSE, FALSE, field, record,
                                   records)
                 ELSE ReadCSV(text, i + 1, TRUE, FALSE, Append(field, c),
                              record, records)
            ELSE IF c = ","
                 THEN ReadCSV(text, i + 1, FALSE, TRUE, <<>>,
                              Append(record, field), records)
                 ELSE IF c = "\n"
                 THEN ReadCSV(text, i + 1, FALSE, TRUE, <<>>, <<>>,
                              Append(records, Append(record, field)))
                 ELSE IF c = "\"" /\ fresh
                 THEN ReadCSV(text, i + 1, TRUE, FALSE, field, record, records)
                 ELSE ReadCSV(text, i + 1, FALSE, FALSE, Append(field, c),
                              record, records)

ParseCSV(text) == ReadCSV(text, 1, FALSE, TRUE, <<>>, <<>>, <<>>)

\* the header names of a table followed by the cell values of its rows
Table(rows) ==
    <<Keys(rows[1])>> \o
        [r \in 1..Len(rows) |-> [k \in 1..Len(rows[r]) |-> rows[r][k][2]]]

\* C23: the file exportToCSV writes, read back by the CSV quoting rules,
\* gives exactly the header names and the cell values it was called with.
C23_RoundTrip ==
    (ev.op = "exportToCSV" /\ ~NoData(exportInput))
        => ParseCSV(download.content) = Table(exportInput.rows)

\* ---------------------------------------------------------------------
\* Properties of the health colour
\* ---------------------------------------------------------------------

\* the tier a class name stands for
Tier(class) ==
    CASE class \in {"bg-green-500", "text-green-600"} -> "healthy"
      [] class \in {"bg-yellow-500", "text-yellow-600"} -> "warning"
      [] class \in {"bg-red-500", "text-red-600"} -> "critical"
      [] OTHER -> "none"

\* C24: for every health score 0..100 the tier is healthy from 80 up,
\* warning from 50 to 79 and critical below 50, in each of the three places
\* that colour it, which therefore agree.
C24_HealthTiers ==
    LET want == IF health_score >= 80 THEN "healthy"
                ELSE IF health_score >= 50 THEN "warning"
                ELSE "critical"
    IN \A class \in {cardBar, heartbeatBar, heartbeatText} \ {""} :
           Tier(class) = want

\* both views show a device whose score is on the warning boundary
C24_Witness ==
    /\ health_score = 50
    /\ cardBar # ""
    /\ heartbeatBar # ""
    /\ heartbeatText # ""

\* ---------------------------------------------------------------------
\* Properties of the alert panel's filters
\* ---------------------------------------------------------------------

FilterFields == {"facility", "zone", "severity", "acknowledged", "search",
                 "sort_by", "order", "is_active"}

\* C25: choosing a severity or an acknowledged status in AlertFilters leaves
\* useAlerts' filters as they were but for that one field, which has the
\* chosen value; the request the change issues carries these filters.
C25_SelectKeepsOtherFilters ==
    [][ ev'.op = "selectChange"
            => /\ \A k \in FilterFields :
                     Param(filters', k) = IF k = ev'.field THEN ev'.value
                                          ELSE Param(filters, k)
               /\ \A r \in getReqs' \ getReqs : r.filters = filters'
      ]_vars

\* C26: after a change in FilterPanel the filters still hold the severity
\* and the acknowledged status that AlertFilters' selects show.
C26_SelectSurvivesPanelChange ==
    (alertsMounted /\ ev.op = "updateFilters")
        => /\ Param(filters, "severity") = severitySelect
           /\ Param(filters, "acknowledged") = statusSelect

\* ---------------------------------------------------------------------
\* Properties of the legacy FilterPanel
\* ---------------------------------------------------------------------

\* C27: no filter object the legacy FilterPanel passes to onFilterChange
\* after the facility selection changed carries a zone.
C27_NoZoneAfterFacilityChange ==
    [][ ev'.op = "legacySelectFacility"
            => \A k \in 1..Len(notified') : "zone" \notin DOMAIN notified'[k]
      ]_vars

====
